---------------------------- MODULE Spec2Model ----------------------------
(***************************************************************************)
(* A model of the Remus community server (community-server/src): the       *)
(* relational store (store.js), the permission engine                      *)
(* (Store.getPermissions), the HTTP control plane (index.js) and the       *)
(* realtime gateway with its voice rooms (socket.js, sfu.js).              *)
(*                                                                         *)
(* Representation.  A permission mask is the set of the positions of its   *)
(* 1 bits: a | b is a \cup b, a & b is a \cap b, a & ~b is a \ b, and      *)
(* (m & bit) === bit is bit \in m.  A table of the store is a function     *)
(* from the primary keys of its rows; a JavaScript Map is a function from  *)
(* its keys; null is the string NULL where an id is expected and 0 where a *)
(* time is expected.  Time is a counter of clock ticks.                    *)
(***************************************************************************)
EXTENDS Integers, Sequences, FiniteSets, TLC

(***************************************************************************)
(* Permission bits (PERMISSIONS): the position of each bit.                *)
(***************************************************************************)
ADMINISTRATOR == 0
VIEW_CHANNELS == 1
MANAGE_CHANNELS == 2
MANAGE_ROLES == 3
MANAGE_SERVER == 4
VIEW_AUDIT_LOG == 5
SEND_MESSAGES == 6
READ_HISTORY == 7
MANAGE_MESSAGES == 8
ATTACH_FILES == 9
VOICE_CONNECT == 10
VOICE_SPEAK == 11
VOICE_MUTE_MEMBERS == 12
VOICE_DEAFEN_MEMBERS == 13
VOICE_MOVE_MEMBERS == 14
SCREENSHARE == 15
KICK_MEMBERS == 16
BAN_MEMBERS == 17
TIMEOUT_MEMBERS == 18

\* permissions.js is imported by store.js and is not part of the sources at
\* hand; these three masks follow the specification (and the client's copy).
ALL_PERMISSIONS == 0..18
TIMEOUT_BLOCKED == {SEND_MESSAGES, ATTACH_FILES, VOICE_SPEAK, SCREENSHARE}
DEFAULT_EVERYONE_PERMS ==
  {VIEW_CHANNELS, SEND_MESSAGES, READ_HISTORY, ATTACH_FILES,
   VOICE_CONNECT, VOICE_SPEAK, SCREENSHARE}

(***************************************************************************)
(* Bounds of the model.                                                    *)
(***************************************************************************)
MaxTime == 1

\* voice:join's rate limit: 10 joins of a user in a window of 60 seconds.
JOIN_LIMIT == 10
JOIN_WINDOW == 60

NULL == "null"
G == "g"
ADMIN_ROLE == "admin"
OPERATOR == "operator"
Users == {"u1", "u2"}
RoleIds == {G, ADMIN_ROLE, "r1"}
ChannelIds == {"cat", "txt", "vc1", "vc2"}
SocketIds == {"s1", "s2"}

EmptyMap == [x \in {} |-> {}]
\* A channel's permissionOverrides as normalizeOverrides reads it: null (and
\* any non-object) is the override object with no entry.
NullOverrides == [roles |-> EmptyMap, members |-> EmptyMap]

VARIABLES
  members,      \* table members of the node guild: userId -> row
  roles,        \* table roles: roleId -> row
  channels,     \* table channels: channelId -> row
  messages,     \* table messages: set of rows
  uploads,      \* table uploads: set of rows
  profiles,     \* table profiles: set of user ids
  bans,         \* table bans: set of user ids
  now,          \* Date.now(), in seconds
  guilds,       \* table guilds: set of guild ids
  drawn,        \* the ids uuid() has returned
  files,        \* the urls of the files in uploadsDir
  settings,     \* meta row settings, as getSettings reads it
  audit,        \* table audit: the action tags of the rows, oldest first
  sockets,      \* socket id -> [state, user, rooms, voiceChannelId (socket.data)]
  userSockets,  \* Map userSockets: userId -> set of sockets
  sessionUsers, \* Map sessionUsers: socket id -> userId
  voiceParticipants, \* Map voiceParticipants: channelId -> set of session ids
  userVoiceChannel,  \* Map userVoiceChannel: session id -> channelId
  speakingUsers,     \* Map speakingUsers: the session ids mapped to true
  voiceUsersCache,   \* Map voiceUsersCache: cache key -> [data, expiresAt]
  sfuRooms,     \* sfu.rooms: channelId -> [peers, producers]
  media,        \* the media worker's objects: id -> [type, kind, appType, of, closed]
  pending,      \* handlers suspended at an await of the media adapter
  socketRateLimits,  \* Map socketRateLimits: key -> [count, resetAt]
  tokenCache,   \* Map tokenCache of identity.js: token -> [user, expiresAt]
  rateBuckets,  \* Map rateBuckets of index.js: key -> [count, resetAt]
  ADMIN_KEY,    \* REMUS_ADMIN_KEY as the process read it, "" for none
  emitted       \* what the last handler sent, in order

storeVars == <<members, roles, channels, messages, uploads, profiles, bans, now, guilds, drawn, files,
              settings, audit>>
httpVars == <<tokenCache, rateBuckets, ADMIN_KEY>>
gatewayVars == <<sockets, userSockets, sessionUsers>>
voiceVars == <<voiceParticipants, userVoiceChannel, speakingUsers, voiceUsersCache, sfuRooms, media,
               pending, socketRateLimits>>

vars == <<storeVars, gatewayVars, voiceVars, httpVars, emitted>>

(***************************************************************************)
(* store.js: reads.                                                        *)
(***************************************************************************)
\* normalizeRoleIds: the role ids of a member always hold the guild id.
normalizeRoleIds(guildId, roleIds) == roleIds \cup {guildId}

isBanned(userId) == userId \in bans

isGuildMember(guildId, userId) == guildId = G /\ userId \in DOMAIN members

\* Store.getMember(...).roleIds, for a user who has a member row.
memberRoleIds(guildId, userId) == normalizeRoleIds(guildId, members[userId].roleIds)

\* applyOverrides with the member override applied before the role overrides.
applyOverrides_memberFirst(perms, overrides, guildId, roleIds, userId) ==
  LET p1 == IF guildId \in DOMAIN overrides.roles
            THEN (perms \ overrides.roles[guildId].deny) \cup overrides.roles[guildId].allow
            ELSE perms
      p2 == IF userId \in DOMAIN overrides.members
            THEN (p1 \ overrides.members[userId].deny) \cup overrides.members[userId].allow
            ELSE p1
      rs == (roleIds \ {guildId}) \cap DOMAIN overrides.roles
  IN (p2 \ UNION {overrides.roles[r].deny : r \in rs})
       \cup UNION {overrides.roles[r].allow : r \in rs}

\* One application of a channel's (or category's) overrides to perms:
\* the @everyone override, then the union of the member's other roles'
\* overrides, then the member override.
applyOverrides(perms, overrides, guildId, roleIds, userId) ==
  LET normalized == overrides
      p1 == IF guildId \in DOMAIN normalized.roles
            THEN (perms \ normalized.roles[guildId].deny) \cup normalized.roles[guildId].allow
            ELSE perms
      rs == (roleIds \ {guildId}) \cap DOMAIN normalized.roles
      roleAllow == UNION {normalized.roles[r].allow : r \in rs}
      roleDeny == UNION {normalized.roles[r].deny : r \in rs}
      p2 == (p1 \ roleDeny) \cup roleAllow
  IN IF userId \in DOMAIN normalized.members
     THEN (p2 \ normalized.members[userId].deny) \cup normalized.members[userId].allow
     ELSE p2

\* The OR of the permissions of the roles the member holds.
rolePermissions(guildId, userId) ==
  UNION {roles[r].permissions : r \in memberRoleIds(guildId, userId) \cap DOMAIN roles}

\* new Date(member.timeoutUntil).getTime() > Date.now(), for a set timeout.
inTimeout(userId) == members[userId].timeoutUntil # 0 /\ now < members[userId].timeoutUntil

\* getPermissions with the timeout mask applied to the role permissions,
\* before the overrides instead of after them.
getPermissions_timeoutFirst(guildId, userId, channelId) ==
  IF guildId # G \/ userId \notin DOMAIN members THEN {}
  ELSE
    LET roleIds == memberRoleIds(guildId, userId)
        perms0 == rolePermissions(guildId, userId)
    IN IF ADMINISTRATOR \in perms0 THEN ALL_PERMISSIONS
       ELSE
         LET hasChannel == channelId \in DOMAIN channels
             categoryId == IF hasChannel THEN channels[channelId].categoryId ELSE NULL
             permsT == IF inTimeout(userId) THEN perms0 \ TIMEOUT_BLOCKED ELSE perms0
             perms1 == IF categoryId \in DOMAIN channels
                       THEN applyOverrides(permsT, channels[categoryId].permissionOverrides,
                                           guildId, roleIds, userId)
                       ELSE permsT
         IN IF hasChannel
            THEN applyOverrides(perms1, channels[channelId].permissionOverrides,
                                guildId, roleIds, userId)
            ELSE perms1

\* Store.getPermissions(guildId, userId, channelId); channelId may be NULL.
getPermissions(guildId, userId, channelId) ==
  IF guildId # G \/ userId \notin DOMAIN members THEN {}
  ELSE
    LET roleIds == memberRoleIds(guildId, userId)
        perms0 == rolePermissions(guildId, userId)
    IN IF ADMINISTRATOR \in perms0 THEN ALL_PERMISSIONS
       ELSE
         LET hasChannel == channelId \in DOMAIN channels
             categoryId == IF hasChannel THEN channels[channelId].categoryId ELSE NULL
             perms1 == IF categoryId \in DOMAIN channels
                       THEN applyOverrides(perms0, channels[categoryId].permissionOverrides,
                                           guildId, roleIds, userId)
                       ELSE perms0
             perms2 == IF hasChannel
                       THEN applyOverrides(perms1, channels[channelId].permissionOverrides,
                                           guildId, roleIds, userId)
                       ELSE perms1
         IN IF inTimeout(userId) THEN perms2 \ TIMEOUT_BLOCKED ELSE perms2

\* isChannelAccessible without the VIEW_CHANNELS test.
isChannelAccessible_exists(channelId, userId) == channelId \in DOMAIN channels

\* Store.isChannelAccessible
isChannelAccessible(channelId, userId) ==
  /\ channelId \in DOMAIN channels
  /\ VIEW_CHANNELS \in getPermissions(G, userId, channelId)

(***************************************************************************)
(* index.js: the gates of the request pipeline.  A request carries the     *)
(* user its bearer token was verified for.                                 *)
(***************************************************************************)
\* requireNotBanned lets the request through.
requireNotBanned_absent(userId) == TRUE
requireNotBanned(userId) == ~isBanned(userId)

\* requirePermission(req, res, perm, channelId) answers no 403.
requirePermission(guildId, userId, perm, channelId) ==
  perm \in getPermissions(guildId, userId, channelId)

RolePositions(rs) == {roles[r].position : r \in rs \cap DOMAIN roles}

Max(S) == CHOOSE x \in S : \A y \in S : y <= x

getMemberTopPosition(guildId, userId) ==
  LET roleIds == IF userId \in DOMAIN members
                 THEN {guildId} \cup memberRoleIds(guildId, userId)
                 ELSE {guildId}
  IN Max(RolePositions(roleIds) \cup {0})

hasAdmin(guildId, userId) == ADMINISTRATOR \in getPermissions(guildId, userId, NULL)

\* canManageRole with the actor's top position compared by >= instead of >.
canManageRole_atOrAbove(guildId, actorId, roleId) ==
  IF hasAdmin(guildId, actorId) THEN TRUE
  ELSE IF roleId = guildId THEN MANAGE_SERVER \in getPermissions(guildId, actorId, NULL)
  ELSE getMemberTopPosition(guildId, actorId)
         >= (IF roleId \in DOMAIN roles THEN roles[roleId].position ELSE 0)

canManageRole(guildId, actorId, roleId) ==
  IF hasAdmin(guildId, actorId) THEN TRUE
  ELSE IF roleId = guildId THEN MANAGE_SERVER \in getPermissions(guildId, actorId, NULL)
  ELSE getMemberTopPosition(guildId, actorId)
         > (IF roleId \in DOMAIN roles THEN roles[roleId].position ELSE 0)

canManageMember(guildId, actorId, targetId) ==
  \/ actorId = targetId
  \/ hasAdmin(guildId, actorId)
  \/ getMemberTopPosition(guildId, actorId) > getMemberTopPosition(guildId, targetId)

(***************************************************************************)
(* store.js: writes.                                                       *)
(***************************************************************************)
\* Store.createMember: INSERT OR IGNORE of a row with the normalized roles.
createMember(guildId, userId, roleIds) ==
  IF userId \in DOMAIN members THEN members
  ELSE [u \in DOMAIN members \cup {userId} |->
          IF u = userId
          THEN [roleIds |-> normalizeRoleIds(guildId, roleIds),
                timeoutUntil |-> 0, voiceMuted |-> FALSE]
          ELSE members[u]]

\* String.prototype.toLowerCase on the role names of the model.
toLowerCase(name) == CASE name = "Admin" -> "admin" [] name = "ADMIN" -> "admin" [] OTHER -> name

\* Store.importLegacyIfNeeded on the empty tables of a first start: a guild
\* row for every entry of the legacy export's guilds that has an id.
importLegacyGuilds(legacyGuilds) ==
  {legacyGuilds[i].id : i \in {j \in 1..Len(legacyGuilds) : legacyGuilds[j].id # NULL}}

\* Store.getNodeGuild: the guild meta nodeGuildId names, which is the oldest
\* guild row; NULL when the table is empty.
getNodeGuild(table) == IF table = {} THEN NULL ELSE G

\* Store.ensureNodeGuild, and the same step of ensureCommunityForUser:
\* createGuild only when getNodeGuild finds no guild.
ensureNodeGuild(table) == IF getNodeGuild(table) = NULL THEN table \cup {G} ELSE table

\* ensureCommunityForUser with the Admin role given to every new member.
ensureCommunityForUser_everyJoin(userId) ==
  IF userId \in DOMAIN members THEN members
  ELSE LET adminRoles == {r \in DOMAIN roles : toLowerCase(roles[r].name) = "admin"}
       IN createMember(G, userId, IF adminRoles # {} THEN {CHOOSE r \in adminRoles : TRUE} ELSE {})

\* Store.ensureCommunityForUser: the first member of the guild gets the
\* Admin role, every later one none.
ensureCommunityForUser(userId) ==
  IF userId \in DOMAIN members THEN members
  ELSE LET adminRoles == {r \in DOMAIN roles : toLowerCase(roles[r].name) = "admin"}
           first == DOMAIN members = {} /\ adminRoles # {}
       IN createMember(G, userId, IF first THEN {CHOOSE r \in adminRoles : TRUE} ELSE {})

\* DEFAULT_SETTINGS.auditMaxEntries
DEFAULT_AUDIT_MAX == 1000

\* DEFAULT_SETTINGS.timeoutMaxMinutes
DEFAULT_TIMEOUT_MAX == 10080

DEFAULT_SETTINGS ==
  [auditMaxEntries |-> DEFAULT_AUDIT_MAX, timeoutMaxMinutes |-> DEFAULT_TIMEOUT_MAX]

\* The auditMaxEntries the operator has stored (PATCH /api/admin/settings)
\* before the guild is used.
ConfiguredAuditMax == 1

\* Store.updateSettings({auditMaxEntries, timeoutMaxMinutes}) followed by
\* getSettings: a field is <<>> when the body has no integer there.  The
\* spread copies the undefined over the current value and JSON.stringify
\* drops it, so the stored setting falls back to the default.
updateSettings(auditMaxEntries, timeoutMaxMinutes) ==
  [auditMaxEntries |->
     IF auditMaxEntries = <<>> THEN DEFAULT_SETTINGS.auditMaxEntries ELSE auditMaxEntries[1],
   timeoutMaxMinutes |->
     IF timeoutMaxMinutes = <<>> THEN DEFAULT_SETTINGS.timeoutMaxMinutes
     ELSE timeoutMaxMinutes[1]]

\* addAudit deleting one row fewer than the overflow.
\* Store.addAudit under the settings getSettings returns: the row is
\* inserted, and with a positive auditMaxEntries the oldest rows beyond it are
\* deleted.
addAuditTo(rows, current, action) ==
  LET all == Append(rows, action)
      max == current.auditMaxEntries
  IN IF max > 0 /\ Len(all) > max THEN SubSeq(all, Len(all) - max + 1, Len(all)) ELSE all

addAudit(action) == addAuditTo(audit, settings, action)

\* Store.purgeUser: the user's member row, messages, uploads and profile.
purgeUserMembers(userId) == [u \in DOMAIN members \ {userId} |-> members[u]]
purgeUserMessages(userId) == {m \in messages : m.authorId # userId}
purgeUserUploads_kept(userId) == uploads
purgeUserUploads(userId) == {x \in uploads : x.authorId # userId}
purgeUserProfiles(userId) == profiles \ {userId}

\* Store.updateMember(guildId, userId, updates): no row, no change.
updateMember(userId, field, value) ==
  IF userId \in DOMAIN members
  THEN [members EXCEPT ![userId] = [members[userId] EXCEPT ![field] = value]]
  ELSE members

\* Store.updateChannel(channelId, {permissionOverrides}).
updateChannelOverrides(channelId, overrides) ==
  [channels EXCEPT ![channelId].permissionOverrides = overrides]

\* A channel row; permissionOverrides starts null.
Channel(type, categoryId, position) ==
  [type |-> type, categoryId |-> categoryId, position |-> position,
   permissionOverrides |-> NullOverrides]

\* Store.getNextChannelPosition(guildId, categoryId): one above the highest
\* position among the channels whose category_id IS categoryId.
getNextChannelPosition(categoryId) ==
  Max({channels[c].position : c \in {x \in DOMAIN channels : channels[x].categoryId = categoryId}}
        \cup {0}) + 1

\* Store.createChannel with the id it draws.
createChannel(channelId, type, categoryId) ==
  [c \in DOMAIN channels \cup {channelId} |->
     IF c = channelId
     THEN Channel(type, categoryId, getNextChannelPosition(categoryId))
     ELSE channels[c]]

\* Store.updateChannel(channelId, {categoryId}) for a channel that exists:
\* a changed category puts the channel at the end of the new one.
updateChannelCategory(channelId, categoryId) ==
  [channels EXCEPT ![channelId] =
     [@ EXCEPT !.categoryId = categoryId,
               !.position = IF categoryId # channels[channelId].categoryId
                            THEN getNextChannelPosition(categoryId) ELSE @]]

\* updateChannelPositions moving each channel by the item's position instead
\* of to it.
RECURSIVE updateChannelPositions_shift(_, _)
updateChannelPositions_shift(table, updates) ==
  IF updates = <<>> THEN table
  ELSE LET item == Head(updates)
       IN updateChannelPositions_shift(
            IF item.id \in DOMAIN table
            THEN [table EXCEPT ![item.id] =
                    [@ EXCEPT !.categoryId = item.categoryId, !.position = @ + item.position]]
            ELSE table,
            Tail(updates))

\* Store.updateChannelPositions(updates): the items are applied in order.
RECURSIVE updateChannelPositions(_, _)
updateChannelPositions(table, updates) ==
  IF updates = <<>> THEN table
  ELSE LET item == Head(updates)
       IN updateChannelPositions(
            IF item.id \in DOMAIN table
            THEN [table EXCEPT ![item.id] =
                    [@ EXCEPT !.categoryId = item.categoryId, !.position = item.position]]
            ELSE table,
            Tail(updates))

\* Store.deleteChannel: the channel's messages, uploads and row.
deleteChannelMessages_kept(channelId) == messages
deleteChannelMessages(channelId) == {m \in messages : m.channelId # channelId}
deleteChannelUploads(channelId) == {x \in uploads : x.channelId # channelId}
deleteChannel(channelId) == [c \in DOMAIN channels \ {channelId} |-> channels[c]]

\* Store.deleteMessage(messageId) for a message that exists: the replies to
\* it lose their pointer, the row goes, and so do the upload rows its
\* attachments name, by id or else by url.
deleteMessageRows(messageId) ==
  {IF m.replyToId = messageId THEN [m EXCEPT !.replyToId = NULL] ELSE m :
     m \in {x \in messages : x.id # messageId}}

AttachmentUploads(attachments) ==
  {x \in uploads : \E i \in 1..Len(attachments) :
     IF attachments[i].id # NULL THEN x.id = attachments[i].id
     ELSE attachments[i].url # NULL /\ x.url = attachments[i].url}

deleteMessageUploads(messageId) ==
  uploads \ UNION {AttachmentUploads(m.attachments) : m \in {x \in messages : x.id = messageId}}

\* Store.createRole: a fresh id, the position above every role of the guild.
createRole(roleId, name, permissions) ==
  [r \in DOMAIN roles \cup {roleId} |->
     IF r = roleId
     THEN [name |-> name, permissions |-> permissions,
           position |-> Max(RolePositions(DOMAIN roles) \cup {0}) + 1, iconUrl |-> NULL]
     ELSE roles[r]]

\* The updates object of Store.updateRole: each field is <<>> when undefined
\* and <<value>> when given.
RoleUpdates(name, permissions, position, iconUrl) ==
  [name |-> name, permissions |-> permissions, position |-> position, iconUrl |-> iconUrl]

\* Store.updateRole(roleId, updates), for a role that exists.
updateRole(roleId, updates) ==
  [roles EXCEPT ![roleId] =
     [name |-> IF updates.name # <<>> THEN updates.name[1] ELSE @.name,
      permissions |-> IF updates.permissions # <<>> THEN updates.permissions[1] ELSE @.permissions,
      position |-> IF updates.position # <<>> THEN updates.position[1] ELSE @.position,
      iconUrl |-> IF updates.iconUrl # <<>> THEN updates.iconUrl[1] ELSE @.iconUrl]]

\* Store.deleteRole(roleId): whether a row is deleted, ...
deleteRoleRemoves(roleId) == roleId \in DOMAIN roles /\ roleId # G

\* ... the roles table after it, ...
deleteRole(roleId) ==
  IF deleteRoleRemoves(roleId) THEN [r \in DOMAIN roles \ {roleId} |-> roles[r]] ELSE roles

\* deleteRole leaving the member rows as they are.
deleteRoleMembers_kept(roleId) == members

\* ... and the members table after it: the id is filtered out of every role
\* list that includes it.
deleteRoleMembers(roleId) ==
  IF deleteRoleRemoves(roleId)
  THEN [u \in DOMAIN members |->
          IF roleId \in memberRoleIds(G, u)
          THEN [members[u] EXCEPT !.roleIds = normalizeRoleIds(G, memberRoleIds(G, u) \ {roleId})]
          ELSE members[u]]
  ELSE members

(***************************************************************************)
(* The state after construction (new Store(), ensureNodeGuild,             *)
(* configureSocket) on a database that holds the node guild, its two       *)
(* default roles, a category with a text channel in it and two voice       *)
(* channels, and no member yet.                                            *)
(***************************************************************************)
InitStore ==
  /\ members = [u \in {} |-> [roleIds |-> {}, timeoutUntil |-> 0, voiceMuted |-> FALSE]]
  /\ roles = [r \in {G, ADMIN_ROLE} |->
                IF r = G
                THEN [name |-> "@everyone", permissions |-> DEFAULT_EVERYONE_PERMS, position |-> 0,
                      iconUrl |-> NULL]
                ELSE [name |-> "Admin", permissions |-> ALL_PERMISSIONS, position |-> 1,
                      iconUrl |-> NULL]]
  /\ channels = [c \in ChannelIds |->
                  CASE c = "cat" -> Channel("category", NULL, 3)
                    [] c = "txt" -> Channel("text", "cat", 1)
                    [] c = "vc1" -> Channel("voice", NULL, 2)
                    [] OTHER -> Channel("voice", NULL, 4)]
  /\ messages = {}
  /\ uploads = {}
  /\ profiles = {}
  /\ bans = {}
  /\ now = 0
  /\ files = {}
  /\ settings = updateSettings(<<ConfiguredAuditMax>>, <<>>)
  /\ audit = <<>>
  /\ drawn = {}

\* new Store() and store.ensureNodeGuild of index.js, with the legacy export
\* found at the first start.
InitGuilds(legacyGuilds) == guilds = ensureNodeGuild(importLegacyGuilds(legacyGuilds))

\* identity.js and index.js: the maps are empty when the modules are loaded.
InitHttp ==
  /\ tokenCache = [t \in {} |-> [user |-> NULL, expiresAt |-> 0]]
  /\ rateBuckets = [k \in {} |-> [count |-> 0, resetAt |-> 0]]

NoPeers == [s \in {} |-> [userId |-> NULL, channelId |-> NULL,
                          transports |-> {}, producers |-> {}, consumers |-> {}]]
NoProducers == [p \in {} |-> [peerId |-> NULL, userId |-> NULL]]
NoMedia == [m \in {} |-> [type |-> NULL, kind |-> NULL, appType |-> NULL,
                          of |-> NULL, closed |-> FALSE]]
NoSocket == [state |-> "free", user |-> NULL, rooms |-> {}, voiceChannelId |-> NULL]

InitGateway ==
  /\ sockets = [s \in SocketIds |-> NoSocket]
  /\ userSockets = [u \in Users |-> {}]
  /\ sessionUsers = [s \in {} |-> NULL]
  /\ emitted = <<>>
  /\ voiceParticipants = [c \in ChannelIds |-> {}]
  /\ userVoiceChannel = [s \in SocketIds |-> NULL]
  /\ speakingUsers = {}
  /\ voiceUsersCache = <<>>
  /\ sfuRooms = [c \in ChannelIds |-> [peers |-> NoPeers, producers |-> NoProducers]]
  /\ media = NoMedia
  /\ pending = {}
  /\ socketRateLimits = [u \in {} |-> [count |-> 0, resetAt |-> 0]]

\* A first start without a legacy export, with an admin key configured.
Init == InitStore /\ InitGateway /\ InitHttp /\ InitGuilds(<<>>) /\ ADMIN_KEY = "key"

(***************************************************************************)
(* socket.js: the gateway's helpers, as functions from the gateway's state *)
(* (the record GW of the gateway's variables) to its next state.           *)
(***************************************************************************)
GW == [sockets |-> sockets, userSockets |-> userSockets, sessionUsers |-> sessionUsers,
       voiceParticipants |-> voiceParticipants, userVoiceChannel |-> userVoiceChannel,
       speakingUsers |-> speakingUsers, voiceUsersCache |-> voiceUsersCache,
       sfuRooms |-> sfuRooms, media |-> media,
       pending |-> pending, emitted |-> <<>>]

SetGW(st) ==
  /\ sockets' = st.sockets
  /\ userSockets' = st.userSockets
  /\ sessionUsers' = st.sessionUsers
  /\ voiceParticipants' = st.voiceParticipants
  /\ userVoiceChannel' = st.userVoiceChannel
  /\ speakingUsers' = st.speakingUsers
  /\ voiceUsersCache' = st.voiceUsersCache
  /\ sfuRooms' = st.sfuRooms
  /\ media' = st.media
  /\ pending' = st.pending
  /\ emitted' = st.emitted

\* Rooms of the socket server and the other destinations of what a handler
\* sends: a socket, the caller of an HTTP route, the ack of a socket event.
Room(kind, id) == <<kind, id>>
Msg(to, event, arg) == [to |-> to, event |-> event, arg |-> arg]
Emit(st, to, event, arg) == [st EXCEPT !.emitted = Append(@, Msg(to, event, arg))]

\* The elements of a set in the order a loop visits them.
RECURSIVE SeqOf(_)
SeqOf(S) == IF S = {} THEN <<>>
            ELSE LET x == CHOOSE y \in S : TRUE IN <<x>> \o SeqOf(S \ {x})

\* The presence cache of toVoiceUsers: an entry lives 5 seconds, and the
\* expired entries are dropped once the map holds more than 100.
VOICE_CACHE_TTL == 5
VOICE_CACHE_SIZE == 100

\* Array.prototype.sort() over session ids: the ids in ascending order.
SocketOrder == <<"s1", "s2">>
sortedSessionIds(S) == SelectSeq(SocketOrder, LAMBDA s : s \in S)

\* Array.prototype.join(sep): the elements with sep between neighbours.
RECURSIVE join(_, _)
join(seq, sep) == IF Len(seq) <= 1 THEN seq
                  ELSE <<Head(seq), sep>> \o join(Tail(seq), sep)

\* The elements of a sequence.
Elements(seq) == {seq[i] : i \in DOMAIN seq}

\* cacheKey of toVoiceUsers: the channel id, ":", the sorted session ids with
\* "," between them, ":", and one digit per session for its speaking state.
voiceUsersKeyOf(st, channelId, sessionIds) ==
  <<channelId, ":">> \o join(sessionIds, ",") \o <<":">> \o
  [i \in 1..Len(sessionIds) |-> IF sessionIds[i] \in st.speakingUsers THEN "1" ELSE "0"]

\* The cache key without the speaking digits.
voiceUsersCacheKey_noSpeaking(st, channelId) ==
  <<channelId, ":">> \o join(sortedSessionIds(st.voiceParticipants[channelId]), ",")

\* The cache key of channelId in the server state st.
voiceUsersCacheKey(st, channelId) ==
  voiceUsersKeyOf(st, channelId, sortedSessionIds(st.voiceParticipants[channelId]))

\* The result toVoiceUsers builds for the sorted session ids: users holds the
\* id and userId of each session.
voiceUsersResult(st, sessionIds) ==
  [userIds |-> sessionIds,
   users |-> [i \in 1..Len(sessionIds) |->
                [id |-> sessionIds[i],
                 userId |-> IF sessionIds[i] \in DOMAIN st.sessionUsers
                            THEN st.sessionUsers[sessionIds[i]] ELSE NULL]],
   speakingUserIds |-> SelectSeq(sessionIds, LAMBDA id : id \in st.speakingUsers)]

\* voiceUsersCache.set(cacheKey, ...) and the removal of the expired entries
\* once the map holds more than VOICE_CACHE_SIZE.
voiceUsersCacheSet(cache, cacheKey, result) ==
  IF Cardinality(DOMAIN cache \cup {cacheKey}) > VOICE_CACHE_SIZE
  THEN [k \in {x \in DOMAIN cache \ {cacheKey} : cache[x].expiresAt > now} \cup {cacheKey} |->
          IF k = cacheKey THEN [data |-> result, expiresAt |-> now + VOICE_CACHE_TTL]
          ELSE cache[k]]
  ELSE (cacheKey :> [data |-> result, expiresAt |-> now + VOICE_CACHE_TTL]) @@ cache

\* The lookup of toVoiceUsers under cacheKey, result being what a miss
\* builds: data is what the function returns, st the server after the call.
voiceUsersLookup(st, cacheKey, result) ==
  IF cacheKey \in DOMAIN st.voiceUsersCache /\ st.voiceUsersCache[cacheKey].expiresAt > now
  THEN [data |-> st.voiceUsersCache[cacheKey].data, st |-> st]
  ELSE [data |-> result,
        st |-> [st EXCEPT !.voiceUsersCache = voiceUsersCacheSet(@, cacheKey, result)]]

\* toVoiceUsers(channelId)
toVoiceUsers(st, channelId) ==
  voiceUsersLookup(st, voiceUsersCacheKey(st, channelId),
                   voiceUsersResult(st, sortedSessionIds(st.voiceParticipants[channelId])))

\* The emits of publishVoicePresence for the view toVoiceUsers returned; the
\* payload is written as the set of its userIds.
emitVoicePresence(view, channelId) ==
  IF channelId \in DOMAIN channels
  THEN Emit(Emit(view.st, Room("voice", channelId), "voice:presence", Elements(view.data.userIds)),
            Room("guild", G), "voice:presenceAll", Elements(view.data.userIds))
  ELSE Emit(view.st, Room("voice", channelId), "voice:presence", Elements(view.data.userIds))

\* publishVoicePresence(channelId)
publishVoicePresence(st, channelId) == emitVoicePresence(toVoiceUsers(st, channelId), channelId)

\* publishSpeaking(channelId, participantId, speaking)
publishSpeaking(st, channelId, participantId, speaking) ==
  LET st1 == Emit(st, Room("voice", channelId), "voice:speaking", <<participantId, speaking>>)
  IN IF channelId \in DOMAIN channels
     THEN Emit(st1, Room("guild", G), "voice:speakingAll", <<participantId, speaking>>)
     ELSE st1

\* clearSpeakingState(participantId)
clearSpeakingState(st, participantId) ==
  LET channelId == st.userVoiceChannel[participantId]
      wasSpeaking == participantId \in st.speakingUsers
      st1 == [st EXCEPT !.speakingUsers = @ \ {participantId}]
  IN IF channelId # NULL /\ wasSpeaking
     THEN publishSpeaking(st1, channelId, participantId, FALSE)
     ELSE st1

\* setSpeakingState(participantId, speaking)
setSpeakingState(st, participantId, speaking) ==
  LET channelId == st.userVoiceChannel[participantId]
      prev == participantId \in st.speakingUsers
      st1 == [st EXCEPT !.speakingUsers = IF speaking THEN @ \cup {participantId}
                                          ELSE @ \ {participantId}]
  IN IF channelId = NULL THEN st
     ELSE IF prev = speaking THEN st
     ELSE publishSpeaking(st1, channelId, participantId, speaking)

\* close() of the media objects ids.
closeMedia(mediaMap, ids) ==
  [m \in DOMAIN mediaMap |->
     IF m \in ids THEN [mediaMap[m] EXCEPT !.closed = TRUE] ELSE mediaMap[m]]

\* The loop of cleanupPeer over peer.producers: close, delete from the room's
\* map, broadcast voice:producerClosed.
RECURSIVE closePeerProducers(_, _, _, _)
closePeerProducers(st, roomId, socketId, producerIds) ==
  IF producerIds = <<>> THEN st
  ELSE LET pr == Head(producerIds)
           roomProducers == st.sfuRooms[roomId].producers
           st1 == [st EXCEPT !.media = closeMedia(@, {pr}),
                             !.sfuRooms[roomId].producers =
                                [q \in DOMAIN roomProducers \ {pr} |-> roomProducers[q]]]
       IN closePeerProducers(
            Emit(st1, Room("voice", roomId), "voice:producerClosed", <<pr, socketId>>),
            roomId, socketId, Tail(producerIds))

\* cleanupPeer without the reset of socket.data.voiceChannelId.
cleanupPeer_keepsChannel(st, socketId) ==
  LET roomId == st.sockets[socketId].voiceChannelId
  IN IF roomId = NULL \/ socketId \notin DOMAIN st.sfuRooms[roomId].peers THEN st
     ELSE
       LET peer == st.sfuRooms[roomId].peers[socketId]
           st1 == [st EXCEPT !.media = closeMedia(@, peer.consumers)]
           st2 == closePeerProducers(st1, roomId, socketId, SeqOf(peer.producers))
           peers == st2.sfuRooms[roomId].peers
       IN [st2 EXCEPT
             !.media = closeMedia(@, peer.transports),
             !.sfuRooms[roomId].peers = [q \in DOMAIN peers \ {socketId} |-> peers[q]],
             !.pending = {[h EXCEPT !.detached = (h.detached \/ h.socket = socketId)] : h \in @}]

\* cleanupPeer(socket).  The handlers of this socket that are suspended at an
\* await keep the peer object that is removed here.
cleanupPeer(st, socketId) ==
  LET roomId == st.sockets[socketId].voiceChannelId
  IN IF roomId = NULL \/ socketId \notin DOMAIN st.sfuRooms[roomId].peers THEN st
     ELSE
       LET peer == st.sfuRooms[roomId].peers[socketId]
           st1 == [st EXCEPT !.media = closeMedia(@, peer.consumers)]
           st2 == closePeerProducers(st1, roomId, socketId, SeqOf(peer.producers))
           peers == st2.sfuRooms[roomId].peers
       IN [st2 EXCEPT
             !.media = closeMedia(@, peer.transports),
             !.sfuRooms[roomId].peers = [q \in DOMAIN peers \ {socketId} |-> peers[q]],
             !.pending = {[h EXCEPT !.detached = (h.detached \/ h.socket = socketId)] : h \in @},
             !.sockets[socketId].voiceChannelId = NULL]

\* removeFromVoice with the presence published before the peer is cleaned up.
removeFromVoice_presenceFirst(st, socketId) ==
  LET channelId == st.userVoiceChannel[socketId]
  IN IF channelId = NULL THEN st
     ELSE
       LET st1 == clearSpeakingState(st, socketId)
           st2 == [st1 EXCEPT !.userVoiceChannel[socketId] = NULL,
                              !.voiceParticipants[channelId] = @ \ {socketId}]
           st3 == cleanupPeer(publishVoicePresence(st2, channelId), socketId)
       IN [st3 EXCEPT !.sockets[socketId].rooms = @ \ {Room("voice", channelId)}]

\* removeFromVoice(socket)
removeFromVoice(st, socketId) ==
  LET channelId == st.userVoiceChannel[socketId]
  IN IF channelId = NULL THEN st
     ELSE
       LET st1 == clearSpeakingState(st, socketId)
           st2 == [st1 EXCEPT !.userVoiceChannel[socketId] = NULL,
                              !.voiceParticipants[channelId] = @ \ {socketId}]
           st3 == cleanupPeer(st2, socketId)
           st4 == [st3 EXCEPT !.sockets[socketId].rooms = @ \ {Room("voice", channelId)}]
       IN publishVoicePresence(st4, channelId)

\* The end of a connection: the socket leaves its rooms, then its disconnect
\* listeners run in the order they were registered (trackSocket's, then the
\* connection handler's).
onDisconnect(st, socketId) ==
  LET userId == st.sockets[socketId].user
      st1 == [st EXCEPT !.sockets[socketId].rooms = {},
                        !.sockets[socketId].state = "free",
                        !.userSockets[userId] = @ \ {socketId}]
      st2 == removeFromVoice(st1, socketId)
  IN [st2 EXCEPT !.sessionUsers = [q \in DOMAIN @ \ {socketId} |-> @[q]],
                 !.sockets[socketId] = NoSocket]

\* disconnectSockets with each socket closed before guild:kicked is sent.
RECURSIVE disconnectSockets_closeFirst(_, _, _, _)
disconnectSockets_closeFirst(st, userId, reason, socketIds) ==
  IF socketIds = <<>> THEN st
  ELSE LET socketId == Head(socketIds)
           st1 == Emit(st, Room("socket", socketId), "disconnect", "server")
           st2 == Emit(onDisconnect(st1, socketId), Room("socket", socketId), "guild:kicked", reason)
       IN disconnectSockets_closeFirst(st2, userId, reason, Tail(socketIds))

\* The loop of disconnectUser over the user's sockets.
RECURSIVE disconnectSockets(_, _, _, _)
disconnectSockets(st, userId, reason, socketIds) ==
  IF socketIds = <<>> THEN st
  ELSE LET socketId == Head(socketIds)
           st1 == Emit(st, Room("socket", socketId), "guild:kicked", reason)
           st2 == removeFromVoice(st1, socketId)
           st3 == [st2 EXCEPT !.sockets[socketId].rooms = @ \ {Room("user", userId)}]
           st4 == Emit(st3, Room("socket", socketId), "disconnect", "server")
       IN disconnectSockets(onDisconnect(st4, socketId), userId, reason, Tail(socketIds))

\* disconnectUser(userId, reason)
disconnectUser(st, userId, reason) ==
  LET st1 == disconnectSockets(st, userId, reason, SeqOf(st.userSockets[userId]))
  IN [st1 EXCEPT !.userSockets[userId] = {}]

(***************************************************************************)
(* index.js: the routes.  userId is the user authMiddleware resolved from  *)
(* the request's token.  emitted holds what the handler sent, its response *)
(* last.                                                                   *)
(***************************************************************************)
Response(userId, status) == Msg(Room("http", userId), "response", status)

\* A response that ends the request with nothing written and nothing sent.
Reply(userId, status) ==
  /\ emitted' = <<Response(userId, status)>>
  /\ UNCHANGED <<storeVars, httpVars, gatewayVars, voiceVars>>

\* GET /api/guilds
GetGuilds(userId) ==
  IF ~requireNotBanned(userId) THEN Reply(userId, 403)
  ELSE /\ profiles' = profiles \cup {userId}
       /\ guilds' = ensureNodeGuild(guilds)
       /\ members' = ensureCommunityForUser(userId)
       /\ emitted' = <<Response(userId, 200)>>
       /\ UNCHANGED <<roles, channels, messages, uploads, bans, now, httpVars, drawn, files, settings, audit,
                      gatewayVars, voiceVars>>

\* PATCH /api/channels/:channelId with body {permissionOverrides}
PatchChannel(actorId, channelId, overrides) ==
  IF ~requireNotBanned(actorId) THEN Reply(actorId, 403)
  ELSE IF channelId \notin DOMAIN channels THEN Reply(actorId, 404)
  ELSE IF ~requirePermission(G, actorId, MANAGE_CHANNELS, channelId) THEN Reply(actorId, 403)
  ELSE /\ channels' = updateChannelOverrides(channelId, overrides)
       /\ emitted' = <<Msg(Room("guild", G), "channel:update", channelId), Response(actorId, 200)>>
       /\ audit' = addAudit("channel.update")
       /\ UNCHANGED <<members, roles, messages, uploads, profiles, bans, now, guilds, httpVars, drawn, files, settings, gatewayVars, voiceVars>>

\* POST /api/guilds/:guildId/roles with body {name, permissions}; roleId is
\* the fresh id createRole draws.
PostRole(actorId, roleId, permissions) ==
  IF ~requireNotBanned(actorId) THEN Reply(actorId, 403)
  ELSE IF ~requirePermission(G, actorId, MANAGE_ROLES, NULL) THEN Reply(actorId, 403)
  ELSE /\ roleId \notin DOMAIN roles \cup drawn
       /\ roles' = createRole(roleId, "role", permissions)
       /\ drawn' = drawn \cup {roleId}
       /\ emitted' = <<Response(actorId, 201)>>
       /\ audit' = addAudit("role.create")
       /\ UNCHANGED <<members, channels, messages, uploads, profiles, bans, now, guilds, httpVars, files, settings, gatewayVars, voiceVars>>

\* PATCH /api/roles/:roleId with body {name, permissions, position}, each
\* <<>> when absent or of another type; names come trimmed.
PatchRole(actorId, roleId, name, permissions, position) ==
  IF ~requireNotBanned(actorId) THEN Reply(actorId, 403)
  ELSE IF roleId \notin DOMAIN roles THEN Reply(actorId, 404)
  ELSE IF ~requirePermission(G, actorId, MANAGE_ROLES, NULL) THEN Reply(actorId, 403)
  ELSE IF ~canManageRole(G, actorId, roleId) THEN Reply(actorId, 403)
  ELSE /\ roles' = updateRole(roleId, RoleUpdates(name, permissions, position, <<>>))
       /\ emitted' = <<Response(actorId, 200)>>
       /\ audit' = addAudit("role.update")
       /\ UNCHANGED <<members, channels, messages, uploads, profiles, bans, now, guilds, httpVars, drawn, files, settings,
                      gatewayVars, voiceVars>>

\* POST /api/roles/:roleId/icon up to the multipart parser
\* (roleIconUpload.single), which reads the body before the handler runs.
SuspendedIcon(userId, roleId) ==
  [op |-> "roleIcon", socket |-> NULL, user |-> userId, channelId |-> NULL, roomId |-> NULL,
   kind |-> NULL, appType |-> NULL, transportId |-> NULL, producerId |-> NULL,
   roleId |-> roleId, detached |-> FALSE]

PostRoleIcon(actorId, roleId) ==
  IF ~requireNotBanned(actorId) THEN Reply(actorId, 403)
  ELSE /\ SuspendedIcon(actorId, roleId) \notin pending
       /\ pending' = pending \cup {SuspendedIcon(actorId, roleId)}
       /\ emitted' = <<>>
       /\ UNCHANGED <<storeVars, httpVars, gatewayVars, voiceParticipants, userVoiceChannel,
                      speakingUsers, voiceUsersCache, sfuRooms, media, socketRateLimits>>

\* The file name of a role icon: role-<roleId>-<Date.now()><ext>.
IconUrl == "/role-icons/file"

\* ... and its handler, with a file in the body.
PostRoleIconHandler(h) ==
  /\ h \in pending /\ h.op = "roleIcon"
  /\ pending' = pending \ {h}
  /\ UNCHANGED <<members, channels, messages, uploads, profiles, bans, now, guilds, httpVars, drawn, files,
                 settings, gatewayVars, voiceParticipants, userVoiceChannel, speakingUsers, voiceUsersCache,
                 sfuRooms, media, socketRateLimits>>
  /\ IF h.roleId \notin DOMAIN roles
     THEN emitted' = <<Response(h.user, 404)>> /\ UNCHANGED <<roles, audit>>
     ELSE IF ~requirePermission(G, h.user, MANAGE_ROLES, NULL) \/ ~canManageRole(G, h.user, h.roleId)
     THEN emitted' = <<Response(h.user, 403)>> /\ UNCHANGED <<roles, audit>>
     ELSE /\ roles' = updateRole(h.roleId, RoleUpdates(<<>>, <<>>, <<>>, <<IconUrl>>))
          /\ audit' = addAudit("role.icon")
          /\ emitted' = <<Response(h.user, 200)>>

\* DELETE /api/roles/:roleId
DeleteRole(actorId, roleId) ==
  IF ~requireNotBanned(actorId) THEN Reply(actorId, 403)
  ELSE IF roleId \notin DOMAIN roles THEN Reply(actorId, 404)
  ELSE IF roleId = G THEN Reply(actorId, 400)
  ELSE IF ~requirePermission(G, actorId, MANAGE_ROLES, NULL) THEN Reply(actorId, 403)
  ELSE IF ~canManageRole(G, actorId, roleId) THEN Reply(actorId, 403)
  ELSE /\ roles' = deleteRole(roleId)
       /\ members' = deleteRoleMembers(roleId)
       /\ emitted' = <<Response(actorId, 200)>>
       /\ audit' = addAudit("role.delete")
       /\ UNCHANGED <<channels, messages, uploads, profiles, bans, now, guilds, httpVars, drawn, files, settings,
                      gatewayVars, voiceVars>>

\* POST /api/admin/roles with body {name, permissions}
AdminPostRole(roleId, permissions) ==
  /\ roleId \notin DOMAIN roles \cup drawn
  /\ roles' = createRole(roleId, "role", permissions)
  /\ drawn' = drawn \cup {roleId}
  /\ emitted' = <<Response(OPERATOR, 201)>>
  /\ UNCHANGED <<members, channels, messages, uploads, profiles, bans, now, guilds, httpVars, files, settings, audit, gatewayVars, voiceVars>>

\* PATCH /api/admin/roles/:roleId with body {name, permissions}
AdminPatchRole(roleId, name, permissions) ==
  IF roleId \notin DOMAIN roles THEN Reply(OPERATOR, 404)
  ELSE /\ roles' = updateRole(roleId, RoleUpdates(name, permissions, <<>>, <<>>))
       /\ emitted' = <<Response(OPERATOR, 200)>>
       /\ UNCHANGED <<members, channels, messages, uploads, profiles, bans, now, guilds, httpVars, drawn, files, settings, audit,
                      gatewayVars, voiceVars>>

\* AdminDeleteRole without the route's own @everyone check.
AdminDeleteRole_unguarded(roleId) ==
  /\ roles' = deleteRole(roleId)
  /\ members' = deleteRoleMembers(roleId)
  /\ emitted' = <<Response(OPERATOR, 200)>>
  /\ UNCHANGED <<channels, messages, uploads, profiles, bans, now, guilds, httpVars, drawn, files, settings, audit,
                 gatewayVars, voiceVars>>

\* DELETE /api/admin/roles/:roleId
AdminDeleteRole(roleId) ==
  IF roleId = G THEN Reply(OPERATOR, 400)
  ELSE /\ roles' = deleteRole(roleId)
       /\ members' = deleteRoleMembers(roleId)
       /\ emitted' = <<Response(OPERATOR, 200)>>
       /\ UNCHANGED <<channels, messages, uploads, profiles, bans, now, guilds, httpVars, drawn, files, settings, audit,
                      gatewayVars, voiceVars>>

\* The minutes of a timeout request, clamped to settings.timeoutMaxMinutes
\* (to 10080 where that is 0).
clampMinutes(minutes) ==
  LET maxMinutes == IF settings.timeoutMaxMinutes = 0 THEN DEFAULT_TIMEOUT_MAX
                    ELSE settings.timeoutMaxMinutes
      atLeastOne == IF minutes < 1 THEN 1 ELSE minutes
  IN IF minutes <= 0 THEN 0
     ELSE IF atLeastOne < maxMinutes THEN atLeastOne ELSE maxMinutes

\* PATCH /api/guilds/:guildId/members/:userId/timeout with body {minutes};
\* the clock counts seconds.
PatchTimeout(actorId, targetId, minutes) ==
  IF ~requireNotBanned(actorId) THEN Reply(actorId, 403)
  ELSE IF ~requirePermission(G, actorId, TIMEOUT_MEMBERS, NULL) THEN Reply(actorId, 403)
  ELSE IF ~canManageMember(G, actorId, targetId) THEN Reply(actorId, 403)
  ELSE /\ members' = updateMember(targetId, "timeoutUntil",
                                  IF clampMinutes(minutes) = 0 THEN 0
                                  ELSE now + clampMinutes(minutes) * 60)
       /\ emitted' = <<Msg(Room("guild", G), "member:update", targetId), Response(actorId, 200)>>
       /\ audit' = addAudit("member.timeout")
       /\ UNCHANGED <<roles, channels, messages, uploads, profiles, bans, now, guilds, httpVars, drawn, files, settings, gatewayVars, voiceVars>>

\* PATCH /api/admin/members/:userId/roles with body {roleIds}, by the operator
\* (requireAdmin passed): the role ids are stored as given.
AdminPatchMemberRoles(targetId, roleIds) ==
  /\ members' = updateMember(targetId, "roleIds", normalizeRoleIds(G, roleIds))
  /\ emitted' = <<Response(OPERATOR, 200)>>
  /\ UNCHANGED <<roles, channels, messages, uploads, profiles, bans, now, guilds, httpVars, drawn, files, settings, audit, gatewayVars, voiceVars>>

\* PATCH /api/guilds/:guildId/members/:userId/roles with body {roleIds}: the
\* roles of the guild below the actor's top position are stored.
PatchMemberRoles(actorId, targetId, roleIds) ==
  IF ~requireNotBanned(actorId) THEN Reply(actorId, 403)
  ELSE IF ~requirePermission(G, actorId, MANAGE_ROLES, NULL) THEN Reply(actorId, 403)
  ELSE IF ~canManageMember(G, actorId, targetId) THEN Reply(actorId, 403)
  ELSE LET actorTop == getMemberTopPosition(G, actorId)
           allowed == {r \in roleIds \cap DOMAIN roles : r # G /\ roles[r].position < actorTop}
       IN /\ members' = updateMember(targetId, "roleIds", normalizeRoleIds(G, allowed))
          /\ emitted' = <<Msg(Room("guild", G), "member:update", targetId),
                          Response(actorId, 200)>>
          /\ audit' = addAudit("member.roles")
          /\ UNCHANGED <<roles, channels, messages, uploads, profiles, bans, now, guilds,
                         httpVars, drawn, files, settings, gatewayVars, voiceVars>>

\* PATCH /api/admin/members/:userId/voice with body {voiceMuted}, by the
\* operator (requireAdmin passed)
AdminPatchVoice(targetId, voiceMuted) ==
  IF getNodeGuild(guilds) = NULL THEN Reply(OPERATOR, 404)
  ELSE /\ members' = updateMember(targetId, "voiceMuted", voiceMuted)
       /\ emitted' = <<Response(OPERATOR, 200)>>
       /\ UNCHANGED <<roles, channels, messages, uploads, profiles, bans, now, guilds, httpVars,
                      drawn, files, settings, audit, gatewayVars, voiceVars>>

\* PATCH /api/guilds/:guildId/settings with body {auditMaxEntries,
\* timeoutMaxMinutes}: <<>> is a field that is absent or no integer, <<n>> the
\* integer n.  The audit row is added under the settings just stored.
PatchSettings(actorId, auditMaxEntries, timeoutMaxMinutes) ==
  IF ~requireNotBanned(actorId) THEN Reply(actorId, 403)
  ELSE IF ~requirePermission(G, actorId, MANAGE_SERVER, NULL) THEN Reply(actorId, 403)
  ELSE /\ settings' = updateSettings(auditMaxEntries, timeoutMaxMinutes)
       /\ audit' = addAuditTo(audit, settings', "server.settings")
       /\ emitted' = <<Response(actorId, 200)>>
       /\ UNCHANGED <<members, roles, channels, messages, uploads, profiles, bans, now, guilds, httpVars, drawn, files,
                      gatewayVars, voiceVars>>

\* PATCH /api/admin/settings with body {auditMaxEntries, timeoutMaxMinutes},
\* by the operator
AdminPatchSettings(auditMaxEntries, timeoutMaxMinutes) ==
  /\ settings' = updateSettings(auditMaxEntries, timeoutMaxMinutes)
  /\ emitted' = <<Response(OPERATOR, 200)>>
  /\ UNCHANGED <<members, roles, channels, messages, uploads, profiles, bans, now, guilds, httpVars, drawn, files, audit,
                 gatewayVars, voiceVars>>

\* POST /api/guilds: answered 405 by the handler; the route has no
\* requireNotBanned.
PostGuilds(userId) == Reply(userId, 405)

\* Store.addMemberToGuild(guildId, userId) of POST /api/guilds/:guildId/join
PostJoin(userId) ==
  IF ~requireNotBanned(userId) THEN Reply(userId, 403)
  ELSE /\ profiles' = profiles \cup {userId}
       /\ members' = createMember(G, userId, {})
       /\ emitted' = <<Msg(Room("guild", G), "guild:memberJoined", userId), Response(userId, 200)>>
       /\ UNCHANGED <<roles, channels, messages, uploads, bans, now, guilds, httpVars, drawn, files, settings, audit, gatewayVars, voiceVars>>

\* The url the upload route gives the stored file: /uploads/<filename>.
FileUrl(uploadId) ==
  CASE uploadId = "f1" -> "/uploads/f1"
    [] uploadId = "f2" -> "/uploads/f2"
    [] OTHER -> "/uploads/f3"

\* deleteUploadFiles(entries): the files of the entries whose url starts with
\* /uploads/ are unlinked where they exist.
UploadUrls == {FileUrl(uploadId) : uploadId \in {"f1", "f2", "f3"}}

deleteUploadFiles(entries) == files \ {entry.url : entry \in {e \in entries : e.url \in UploadUrls}}

\* What the purging routes do after their gates: [banUser,] purgeUser,
\* guild:memberLeft, disconnectUser, the response; the audit row is the
\* route's own.
PurgeAndDisconnect(callerId, targetId, reason, ban) ==
  /\ bans' = IF ban THEN bans \cup {targetId} ELSE bans
  /\ members' = purgeUserMembers(targetId)
  /\ messages' = purgeUserMessages(targetId)
  /\ uploads' = purgeUserUploads(targetId)
  /\ profiles' = purgeUserProfiles(targetId)
  /\ LET st1 == Emit(GW, Room("guild", G), "guild:memberLeft", targetId)
         st2 == disconnectUser(st1, targetId, reason)
     IN SetGW(Emit(st2, Room("http", callerId), "response", 200))
  /\ files' = deleteUploadFiles({x \in uploads : x.authorId = targetId})
  /\ UNCHANGED <<roles, channels, now, guilds, httpVars, drawn, settings, socketRateLimits>>

\* POST /api/guilds/:guildId/leave: the route has no requireNotBanned.
PostLeave(userId) ==
  IF ~isGuildMember(G, userId) THEN Reply(userId, 200)
  ELSE PurgeAndDisconnect(userId, userId, "left", FALSE) /\ UNCHANGED audit

\* POST /api/guilds/:guildId/members/:userId/kick
PostKick(actorId, targetId) ==
  IF ~requireNotBanned(actorId) THEN Reply(actorId, 403)
  ELSE IF ~requirePermission(G, actorId, KICK_MEMBERS, NULL) THEN Reply(actorId, 403)
  ELSE IF ~canManageMember(G, actorId, targetId) THEN Reply(actorId, 403)
  ELSE PurgeAndDisconnect(actorId, targetId, "kicked", FALSE) /\ audit' = addAudit("member.kick")

\* POST /api/guilds/:guildId/members/:userId/ban
PostBan(actorId, targetId) ==
  IF ~requireNotBanned(actorId) THEN Reply(actorId, 403)
  ELSE IF ~requirePermission(G, actorId, BAN_MEMBERS, NULL) THEN Reply(actorId, 403)
  ELSE IF ~canManageMember(G, actorId, targetId) THEN Reply(actorId, 403)
  ELSE PurgeAndDisconnect(actorId, targetId, "banned", TRUE) /\ audit' = addAudit("member.ban")

\* POST /api/admin/users/:userId/kick, by the operator
AdminKick(targetId) ==
  PurgeAndDisconnect(OPERATOR, targetId, "kicked", FALSE) /\ UNCHANGED audit

\* POST /api/admin/users/:userId/ban, by the operator
AdminBan(targetId) ==
  PurgeAndDisconnect(OPERATOR, targetId, "banned", TRUE) /\ UNCHANGED audit

\* POST /api/admin/bans/:userId/unban, by the operator
AdminUnban(targetId) ==
  IF ~isBanned(targetId) THEN Reply(OPERATOR, 404)
  ELSE /\ bans' = bans \ {targetId}
       /\ emitted' = <<Response(OPERATOR, 200)>>
       /\ UNCHANGED <<members, roles, channels, messages, uploads, profiles, now, guilds, httpVars, drawn, files, settings, audit,
                      gatewayVars, voiceVars>>

\* Store.createMessage: a row with a fresh id; attachments is the list the
\* caller passes, replyToId a message id or NULL.
createMessage(messageId, channelId, authorId, content, attachments, replyToId) ==
  messages \cup {[id |-> messageId, channelId |-> channelId, authorId |-> authorId,
                  content |-> content, attachments |-> attachments,
                  replyToId |-> replyToId]}

\* sanitizeText and the routes' trim().slice(0, 2000): a content of blanks
\* becomes the empty string.
sanitizeText(input) == IF input = " " THEN "" ELSE input

\* An attachment item of a request: id and url are strings, or NULL when the
\* item has no such field.
Attachment(id, url) == [id |-> id, url |-> url]

\* POST /api/guilds/:guildId/channels with body {name, type, categoryId}, the
\* name not empty; type is "voice", "category" or anything else, read as
\* "text"; a missing or empty categoryId is null.
PostChannel(actorId, channelId, type, categoryId) ==
  IF ~requireNotBanned(actorId) THEN Reply(actorId, 403)
  ELSE IF ~requirePermission(G, actorId, MANAGE_CHANNELS, NULL) THEN Reply(actorId, 403)
  ELSE /\ channelId \notin DOMAIN channels \cup drawn
       /\ channels' = createChannel(channelId,
                                    IF type \in {"voice", "category"} THEN type ELSE "text",
                                    IF categoryId = "" THEN NULL ELSE categoryId)
       /\ drawn' = drawn \cup {channelId}
       /\ emitted' = <<Msg(Room("guild", G), "channel:new", channelId), Response(actorId, 201)>>
       /\ audit' = addAudit("channel.create")
       /\ UNCHANGED <<members, roles, messages, uploads, profiles, bans, now, guilds, httpVars, files, settings,
                      gatewayVars, voiceVars>>

\* An absent field of a request body.
UNDEFINED == "undefined"

\* The filter of PATCH /api/guilds/:guildId/channels/order: items that name a
\* channel of the guild, with "" read as no category and an absent
\* categoryId as the channel's own.
RECURSIVE filterOrderUpdates(_, _)
filterOrderUpdates(table, updates) ==
  IF updates = <<>> THEN <<>>
  ELSE LET item == Head(updates)
           rest == filterOrderUpdates(table, Tail(updates))
       IN IF item.id \notin DOMAIN table THEN rest
          ELSE <<[id |-> item.id, position |-> item.position,
                  categoryId |-> IF item.categoryId = "" THEN NULL
                                 ELSE IF item.categoryId = UNDEFINED
                                 THEN table[item.id].categoryId
                                 ELSE item.categoryId]>> \o rest

\* PATCH /api/guilds/:guildId/channels/order with body {updates}, every item
\* with an integer position.
PatchChannelOrder(actorId, updates) ==
  IF ~requireNotBanned(actorId) THEN Reply(actorId, 403)
  ELSE IF ~requirePermission(G, actorId, MANAGE_CHANNELS, NULL) THEN Reply(actorId, 403)
  ELSE IF filterOrderUpdates(channels, updates) = <<>> THEN Reply(actorId, 400)
  ELSE LET filtered == filterOrderUpdates(channels, updates)
       IN /\ channels' = updateChannelPositions(channels, filtered)
          /\ emitted' = [i \in 1..Len(filtered) |->
                           Msg(Room("guild", G), "channel:update", filtered[i].id)]
                        \o <<Response(actorId, 200)>>
          /\ audit' = addAudit("channel.reorder")
          /\ UNCHANGED <<members, roles, messages, uploads, profiles, bans, now, guilds, httpVars, drawn, files, settings,
                         gatewayVars, voiceVars>>

\* PATCH /api/channels/:channelId with body {categoryId}, "" read as null.
PatchChannelCategory(actorId, channelId, categoryId) ==
  IF ~requireNotBanned(actorId) THEN Reply(actorId, 403)
  ELSE IF channelId \notin DOMAIN channels THEN Reply(actorId, 404)
  ELSE IF ~requirePermission(G, actorId, MANAGE_CHANNELS, channelId) THEN Reply(actorId, 403)
  ELSE /\ channels' = updateChannelCategory(channelId, IF categoryId = "" THEN NULL ELSE categoryId)
       /\ emitted' = <<Msg(Room("guild", G), "channel:update", channelId), Response(actorId, 200)>>
       /\ audit' = addAudit("channel.update")
       /\ UNCHANGED <<members, roles, messages, uploads, profiles, bans, now, guilds, httpVars, drawn, files, settings,
                      gatewayVars, voiceVars>>

\* DELETE /api/channels/:channelId
DeleteChannel(actorId, channelId) ==
  IF ~requireNotBanned(actorId) THEN Reply(actorId, 403)
  ELSE IF channelId \notin DOMAIN channels THEN Reply(actorId, 404)
  ELSE IF ~requirePermission(G, actorId, MANAGE_CHANNELS, channelId) THEN Reply(actorId, 403)
  ELSE /\ messages' = deleteChannelMessages(channelId)
       /\ uploads' = deleteChannelUploads(channelId)
       /\ channels' = deleteChannel(channelId)
       /\ files' = deleteUploadFiles({x \in uploads : x.channelId = channelId})
       /\ audit' = addAudit("channel.delete")
       /\ emitted' = <<Msg(Room("guild", G), "channel:delete", channelId), Response(actorId, 200)>>
       /\ UNCHANGED <<members, roles, profiles, bans, now, guilds, httpVars, drawn, settings, gatewayVars, voiceVars>>

\* DELETE /api/channels/:channelId/messages/:messageId
DeleteMessage(actorId, channelId, messageId) ==
  IF ~requireNotBanned(actorId) THEN Reply(actorId, 403)
  ELSE IF channelId \notin DOMAIN channels THEN Reply(actorId, 400)
  ELSE IF channels[channelId].type # "text" THEN Reply(actorId, 400)
  ELSE IF ~requirePermission(G, actorId, MANAGE_MESSAGES, channelId) THEN Reply(actorId, 403)
  ELSE IF \A m \in messages : m.id # messageId THEN Reply(actorId, 200)
  ELSE /\ messages' = deleteMessageRows(messageId)
       /\ uploads' = deleteMessageUploads(messageId)
       /\ files' = deleteUploadFiles(
                     {a \in UNION {{m.attachments[i] : i \in 1..Len(m.attachments)} :
                                     m \in {x \in messages : x.id = messageId}} : a.url # NULL})
       /\ emitted' = <<Msg(Room("channel", channelId), "message:delete", <<messageId, channelId>>),
                       Response(actorId, 200)>>
       /\ audit' = addAudit("message.delete")
       /\ UNCHANGED <<members, roles, channels, profiles, bans, now, guilds, httpVars, drawn, settings,
                      gatewayVars, voiceVars>>

\* attachments.filter((item) => item && typeof item.url === "string")
filterUrlItems(items) == SelectSeq(items, LAMBDA item : item.url # NULL)

\* POST /api/channels/:channelId/messages with body {content, attachments}
PostMessage(userId, channelId, messageId, content, attachments) ==
  IF ~requireNotBanned(userId) THEN Reply(userId, 403)
  ELSE IF channelId \notin DOMAIN channels \/ channels[channelId].type # "text"
       THEN Reply(userId, 400)
  ELSE IF ~requirePermission(G, userId, SEND_MESSAGES, channelId) THEN Reply(userId, 403)
  ELSE IF sanitizeText(content) = "" /\ filterUrlItems(attachments) = <<>>
       THEN Reply(userId, 400)
  ELSE /\ messageId \notin drawn
       /\ messages' = createMessage(messageId, channelId, userId, sanitizeText(content),
                                    filterUrlItems(attachments), NULL)
       /\ drawn' = drawn \cup {messageId}
       /\ emitted' = <<Msg(Room("channel", channelId), "message:new", messageId),
                       Response(userId, 201)>>
       /\ UNCHANGED <<members, roles, channels, uploads, profiles, bans, now, guilds, httpVars, files, settings, audit,
                      gatewayVars, voiceVars>>

\* Store.createUpload: a row with the id the route drew.
createUpload(uploadId, channelId, authorId) ==
  uploads \cup {[id |-> uploadId, channelId |-> channelId, authorId |-> authorId,
                 url |-> FileUrl(uploadId)]}

\* A request suspended between two of its middlewares.
SuspendedRequest(op, userId, channelId) ==
  [op |-> op, socket |-> NULL, user |-> userId, channelId |-> channelId, roomId |-> NULL,
   kind |-> NULL, appType |-> NULL, transportId |-> NULL, producerId |-> NULL,
   roleId |-> NULL, detached |-> FALSE]

\* POST /api/files/upload up to the multipart parser (upload.single), which
\* reads the request body before the handler runs.
PostUpload(userId, channelId) ==
  IF ~requireNotBanned(userId) THEN Reply(userId, 403)
  ELSE /\ SuspendedRequest("upload", userId, channelId) \notin pending
       /\ pending' = pending \cup {SuspendedRequest("upload", userId, channelId)}
       /\ emitted' = <<>>
       /\ UNCHANGED <<storeVars, httpVars, gatewayVars, voiceParticipants, userVoiceChannel,
                      speakingUsers, voiceUsersCache, sfuRooms, media, socketRateLimits>>

\* allowRate(key, limit, windowMs) of index.js: the verdict, and rateBuckets
\* after the call.
allowRate_over(key, limit) ==
  \/ key \notin DOMAIN rateBuckets
  \/ rateBuckets[key].resetAt <= now
  \/ rateBuckets[key].count <= limit

allowRate(key, limit) ==
  \/ key \notin DOMAIN rateBuckets
  \/ rateBuckets[key].resetAt <= now
  \/ rateBuckets[key].count < limit

rateBucketsAfter(key, limit, windowMs) ==
  IF key \notin DOMAIN rateBuckets \/ rateBuckets[key].resetAt <= now
  THEN [k \in DOMAIN rateBuckets \cup {key} |->
          IF k = key THEN [count |-> 1, resetAt |-> now + windowMs] ELSE rateBuckets[k]]
  ELSE IF ~allowRate(key, limit) THEN rateBuckets
  ELSE [rateBuckets EXCEPT ![key].count = @ + 1]

\* The upload route's limit: 30 requests of a user in a window of 60 seconds.
UPLOAD_LIMIT == 30
UPLOAD_WINDOW == 60

UploadKey(userId) == <<"upload", userId>>

\* path.extname on the file names of the model.
extname(name) ==
  CASE name = "a.png" -> ".png"
    [] name = "evil.bat" -> ".bat"
    [] name = "evil.BAT" -> ".BAT"
    [] name = "tool.Sh" -> ".Sh"
    [] OTHER -> ""

\* String.prototype.toLowerCase on the extensions of the model.
extToLowerCase(ext) ==
  CASE ext = ".BAT" -> ".bat"
    [] ext = ".Sh" -> ".sh"
    [] OTHER -> ext

BLOCKED_EXTENSIONS ==
  {".exe", ".bat", ".cmd", ".com", ".scr", ".vbs", ".js", ".jar", ".msi", ".dll", ".so",
   ".dylib", ".sh", ".ps1"}

\* ... and its handler.  originalname is the name of the file in the body,
\* NULL for a body without a file.  The parser has written the file under a
\* name drawn with uuid(), which the model takes to be the id of the upload
\* row; only the blocklist branch unlinks it.
PostUploadFile(h, uploadId, originalname) ==
  /\ h \in pending /\ h.op = "upload"
  /\ pending' = pending \ {h}
  /\ UNCHANGED <<members, roles, channels, messages, profiles, bans, now, guilds, tokenCache,
                 ADMIN_KEY, settings, audit, gatewayVars, voiceParticipants, userVoiceChannel,
                 speakingUsers, voiceUsersCache, sfuRooms, media, socketRateLimits>>
  /\ IF originalname = NULL
     THEN UNCHANGED drawn
     ELSE uploadId \notin drawn /\ drawn' = drawn \cup {uploadId}
  /\ LET stored == IF originalname = NULL THEN files ELSE files \cup {FileUrl(uploadId)}
         key == UploadKey(h.user)
     IN IF h.channelId \notin DOMAIN channels \/ ~requirePermission(G, h.user, ATTACH_FILES, h.channelId)
        THEN /\ emitted' = <<Response(h.user, 403)>>
             /\ files' = stored
             /\ UNCHANGED <<uploads, rateBuckets>>
        ELSE /\ rateBuckets' = rateBucketsAfter(key, UPLOAD_LIMIT, UPLOAD_WINDOW)
             /\ IF ~allowRate(key, UPLOAD_LIMIT)
                THEN /\ emitted' = <<Response(h.user, 429)>>
                     /\ files' = stored
                     /\ UNCHANGED uploads
                ELSE IF originalname = NULL
                THEN /\ emitted' = <<Response(h.user, 400)>>
                     /\ files' = stored
                     /\ UNCHANGED uploads
                ELSE IF extToLowerCase(extname(originalname)) \in BLOCKED_EXTENSIONS
                THEN /\ emitted' = <<Response(h.user, 400)>>
                     /\ files' = stored \ {FileUrl(uploadId)}
                     /\ UNCHANGED uploads
                ELSE /\ uploads' = createUpload(uploadId, h.channelId, h.user)
                     /\ files' = stored
                     /\ emitted' = <<Response(h.user, 201)>>

\* The handler with a file of an allowed type.
PostUploadHandler(h, uploadId) == PostUploadFile(h, uploadId, "a.png")

(***************************************************************************)
(* identity.js, index.js, socket.js: the life of a socket.                 *)
(***************************************************************************)
\* socketAuth's middleware with a valid token of userId, and the callback
\* index.js gives it; next() is called for a banned user as well.
SocketAuth(socketId, userId) ==
  /\ sockets[socketId].state = "free"
  /\ sockets' = [sockets EXCEPT ![socketId] = [NoSocket EXCEPT !.state = "authed", !.user = userId]]
  /\ IF isBanned(userId)
     THEN UNCHANGED <<profiles, guilds, members>>
     ELSE /\ profiles' = profiles \cup {userId}
          /\ guilds' = ensureNodeGuild(guilds)
          /\ members' = ensureCommunityForUser(userId)
  /\ emitted' = <<>>
  /\ UNCHANGED <<roles, channels, messages, uploads, bans, now, httpVars, drawn, files, settings, audit,
                 userSockets, sessionUsers, voiceVars>>

\* io.on("connection") up to the registration of the socket's listeners.
Connection(socketId) ==
  /\ sockets[socketId].state = "authed"
  /\ LET userId == sockets[socketId].user
     IN IF isBanned(userId)
        THEN /\ sockets' = [sockets EXCEPT ![socketId] = NoSocket]
             /\ emitted' = <<Msg(Room("socket", socketId), "auth:banned", "banned"),
                             Msg(Room("socket", socketId), "disconnect", "server")>>
             /\ UNCHANGED <<profiles, userSockets, sessionUsers>>
        ELSE /\ profiles' = profiles \cup {userId}
             /\ sockets' = [sockets EXCEPT ![socketId].state = "open",
                                           ![socketId].rooms =
                                              {Room("user", userId)} \cup
                                              {Room("guild", g) : g \in {x \in {G} : isGuildMember(x, userId)}}]
             /\ userSockets' = [userSockets EXCEPT ![userId] = @ \cup {socketId}]
             /\ sessionUsers' = [q \in DOMAIN sessionUsers \cup {socketId} |->
                                   IF q = socketId THEN userId ELSE sessionUsers[q]]
             /\ emitted' = <<>>
  /\ UNCHANGED <<members, roles, channels, messages, uploads, bans, now, guilds, httpVars, drawn, files, settings, audit, voiceVars>>

\* The client closes the connection: before the connection event nothing is
\* registered for the socket, after it the disconnect listeners run.
ClientDisconnect(socketId) ==
  /\ sockets[socketId].state # "free"
  /\ IF sockets[socketId].state = "authed"
     THEN /\ sockets' = [sockets EXCEPT ![socketId] = NoSocket]
          /\ emitted' = <<>>
          /\ UNCHANGED <<userSockets, sessionUsers, voiceParticipants, userVoiceChannel,
                         speakingUsers, voiceUsersCache, sfuRooms, media, pending>>
     ELSE SetGW(onDisconnect(GW, socketId))
  /\ UNCHANGED <<storeVars, httpVars, socketRateLimits>>

\* The listeners of a socket exist once the connection handler registered them.
Listening(socketId) == sockets[socketId].state = "open"

\* socket.on("guild:joinRoom")
GuildJoinRoom(socketId) ==
  /\ Listening(socketId)
  /\ sockets' = IF isGuildMember(G, sockets[socketId].user)
                THEN [sockets EXCEPT ![socketId].rooms = @ \cup {Room("guild", G)}]
                ELSE sockets
  /\ emitted' = <<>>
  /\ UNCHANGED <<storeVars, httpVars, userSockets, sessionUsers, voiceVars>>

\* socket.on("channel:join")
ChannelJoin(socketId, channelId) ==
  /\ Listening(socketId)
  /\ sockets' = IF isChannelAccessible(channelId, sockets[socketId].user)
                THEN [sockets EXCEPT ![socketId].rooms = @ \cup {Room("channel", channelId)}]
                ELSE sockets
  /\ emitted' = <<>>
  /\ UNCHANGED <<storeVars, httpVars, userSockets, sessionUsers, voiceVars>>

\* socket.to(room).emit(event, payload): every socket of the room but the
\* sender.
Broadcast(socketId, room, event, payload) ==
  Msg(room, event, [payload |-> payload, except |-> socketId])

\* socket.on("typing:start")
TypingStart(socketId, channelId) ==
  /\ Listening(socketId)
  /\ LET userId == sockets[socketId].user
     IN emitted' = IF /\ isChannelAccessible(channelId, userId)
                      /\ SEND_MESSAGES \in getPermissions(G, userId, channelId)
                   THEN <<Broadcast(socketId, Room("channel", channelId), "typing:start",
                                    <<channelId, userId>>)>>
                   ELSE <<>>
  /\ UNCHANGED <<storeVars, httpVars, gatewayVars, voiceVars>>

\* socket.on("typing:stop")
TypingStop(socketId, channelId) ==
  /\ Listening(socketId)
  /\ LET userId == sockets[socketId].user
     IN emitted' = IF isChannelAccessible(channelId, userId)
                   THEN <<Broadcast(socketId, Room("channel", channelId), "typing:stop",
                                    <<channelId, userId>>)>>
                   ELSE <<>>
  /\ UNCHANGED <<storeVars, httpVars, gatewayVars, voiceVars>>

\* The Store class (store.js 97-1308) defines neither getUploadById nor
\* getUploadByUrl: store.getUploadById(..) and store.getUploadByUrl(..) are
\* calls of undefined, which throw a TypeError.
TypeError == "TypeError"

getUploadById(uploadId) == TypeError

getUploadByUrl(uploadUrl) == TypeError

\* normalizeMessageAttachments: the loop over the items, from the lists
\* attachments and seen built so far.  The result is the list, or the error
\* thrown.
RECURSIVE normalizeItems(_, _, _, _, _)
normalizeItems(channelId, authorId, items, attachments, seen) ==
  IF items = <<>> THEN [threw |-> FALSE, attachments |-> attachments]
  ELSE LET item == Head(items)
           upload == IF item.id # NULL THEN getUploadById(item.id)
                     ELSE IF item.url # NULL THEN getUploadByUrl(item.url)
                     ELSE NULL
       IN IF upload = TypeError THEN [threw |-> TRUE, attachments |-> <<>>]
          ELSE IF upload = NULL
          THEN normalizeItems(channelId, authorId, Tail(items), attachments, seen)
          ELSE IF upload.channelId # channelId \/ upload.authorId # authorId
          THEN normalizeItems(channelId, authorId, Tail(items), attachments, seen)
          ELSE IF upload.id \in seen
          THEN normalizeItems(channelId, authorId, Tail(items), attachments, seen)
          ELSE normalizeItems(channelId, authorId, Tail(items),
                              Append(attachments, Attachment(upload.id, upload.url)),
                              seen \cup {upload.id})

\* normalizeMessageAttachments(store, channelId, authorId, rawAttachments)
normalizeMessageAttachments(channelId, authorId, rawAttachments) ==
  normalizeItems(channelId, authorId, rawAttachments, <<>>, {})

\* The exception of a listener, which nothing catches.
Uncaught(error) == Msg(Room("process", "server"), "uncaughtException", error)

\* socket.on("message:send") with payload {channelId, content, attachments,
\* replyToId}
MessageSend(socketId, channelId, messageId, content, rawAttachments, replyToId) ==
  /\ Listening(socketId)
  /\ LET userId == sockets[socketId].user
         normalized == normalizeMessageAttachments(channelId, userId, rawAttachments)
         attachments == normalized.attachments
     IN IF ~(/\ isChannelAccessible(channelId, userId)
             /\ channels[channelId].type = "text"
             /\ SEND_MESSAGES \in getPermissions(G, userId, channelId))
        THEN /\ emitted' = <<>>
             /\ UNCHANGED <<messages, drawn>>
        ELSE IF normalized.threw
        THEN /\ emitted' = <<Uncaught(TypeError)>>
             /\ UNCHANGED <<messages, drawn>>
        ELSE IF /\ replyToId # NULL
                /\ \A m \in messages : ~(m.id = replyToId /\ m.channelId = channelId)
        THEN /\ emitted' = <<>>
             /\ UNCHANGED <<messages, drawn>>
        ELSE IF sanitizeText(content) = "" /\ attachments = <<>>
        THEN /\ emitted' = <<>>
             /\ UNCHANGED <<messages, drawn>>
        ELSE /\ messageId \notin drawn
             /\ drawn' = drawn \cup {messageId}
             /\ messages' = createMessage(messageId, channelId, userId, sanitizeText(content),
                                          attachments, replyToId)
             /\ emitted' = <<Msg(Room("channel", channelId), "message:new", messageId)>>
  /\ UNCHANGED <<members, roles, channels, uploads, profiles, bans, now, guilds, httpVars, files, settings, audit, gatewayVars, voiceVars>>

(***************************************************************************)
(* socket.js: voice.                                                       *)
(***************************************************************************)
Ack(st, socketId, event, result) == Emit(st, Room("ack", socketId), event, result)

\* A handler that only acknowledges.
AckOnly(socketId, event, result) ==
  /\ emitted' = <<Msg(Room("ack", socketId), event, result)>>
  /\ UNCHANGED <<gatewayVars, voiceParticipants, userVoiceChannel, speakingUsers, voiceUsersCache, sfuRooms,
                 media, pending>>

\* checkSocketRateLimit(key, limit, windowMs): the verdict, and the map after
\* the call.
checkSocketRateLimit(key, limit) ==
  \/ key \notin DOMAIN socketRateLimits
  \/ socketRateLimits[key].resetAt <= now
  \/ socketRateLimits[key].count < limit

rateLimitsAfter(key, limit, windowMs) ==
  IF key \notin DOMAIN socketRateLimits \/ socketRateLimits[key].resetAt <= now
  THEN [k \in DOMAIN socketRateLimits \cup {key} |->
          IF k = key THEN [count |-> 1, resetAt |-> now + windowMs] ELSE socketRateLimits[k]]
  ELSE IF socketRateLimits[key].count >= limit THEN socketRateLimits
  ELSE [socketRateLimits EXCEPT ![key].count = @ + 1]

NewPeer(userId, channelId) ==
  [userId |-> userId, channelId |-> channelId, transports |-> {}, producers |-> {},
   consumers |-> {}]

\* The voice:participants event of voice:join for the view toVoiceUsers
\* returned, written as the set of the other sessions.
emitParticipants(view, socketId) ==
  Emit(view.st, Room("socket", socketId), "voice:participants",
       Elements(view.data.userIds) \ {socketId})

\* socket.on("voice:join")
VoiceJoin(socketId, channelId) ==
  /\ Listening(socketId)
  /\ UNCHANGED <<storeVars, httpVars>>
  /\ LET userId == sockets[socketId].user
     IN IF ~checkSocketRateLimit(userId, JOIN_LIMIT)
        THEN /\ AckOnly(socketId, "voice:join", "Too many join attempts. Please slow down.")
             /\ UNCHANGED socketRateLimits
        ELSE
          /\ socketRateLimits' = rateLimitsAfter(userId, JOIN_LIMIT, JOIN_WINDOW)
          /\ IF ~isChannelAccessible(channelId, userId)
             THEN AckOnly(socketId, "voice:join", "Forbidden")
             ELSE IF channels[channelId].type # "voice"
             THEN AckOnly(socketId, "voice:join", "Not a voice channel")
             ELSE IF VOICE_CONNECT \notin getPermissions(G, userId, channelId)
             THEN AckOnly(socketId, "voice:join", "Missing voice permission")
             ELSE
               LET st1 == removeFromVoice(GW, socketId)
                   peers == st1.sfuRooms[channelId].peers
                   st2 == [st1 EXCEPT
                             !.voiceParticipants[channelId] = @ \cup {socketId},
                             !.userVoiceChannel[socketId] = channelId,
                             !.sockets[socketId].voiceChannelId = channelId,
                             !.sockets[socketId].rooms = @ \cup {Room("voice", channelId)},
                             !.sfuRooms[channelId].peers =
                                [q \in DOMAIN peers \cup {socketId} |->
                                   IF q = socketId THEN NewPeer(userId, channelId) ELSE peers[q]]]
                   st3 == emitParticipants(toVoiceUsers(st2, channelId), socketId)
                   existingProducers ==
                     {pr \in DOMAIN st3.sfuRooms[channelId].producers :
                        st3.sfuRooms[channelId].producers[pr].peerId # socketId}
                   st4 == IF existingProducers # {}
                          THEN Emit(st3, Room("socket", socketId), "voice:existingProducers",
                                    existingProducers)
                          ELSE st3
               IN SetGW(Ack(publishVoicePresence(st4, channelId), socketId, "voice:join", "ok"))

\* socket.on("voice:leave")
VoiceLeave(socketId) ==
  /\ Listening(socketId)
  /\ SetGW(removeFromVoice(GW, socketId))
  /\ UNCHANGED <<storeVars, httpVars, socketRateLimits>>

\* findRoomForSocket(channelId, socketId): the id of the room, NULL for none.
findRoomForSocket(channelId, socketId) ==
  IF channelId \in DOMAIN sfuRooms /\ socketId \in DOMAIN sfuRooms[channelId].peers
  THEN channelId
  ELSE IF \E c \in DOMAIN sfuRooms : socketId \in DOMAIN sfuRooms[c].peers
  THEN CHOOSE c \in DOMAIN sfuRooms : socketId \in DOMAIN sfuRooms[c].peers
  ELSE IF channelId \in DOMAIN sfuRooms THEN channelId ELSE NULL

\* const channelId = payload.channelId || socket.data.voiceChannelId
payloadChannel(socketId, channelId) ==
  IF channelId # NULL THEN channelId ELSE sockets[socketId].voiceChannelId

\* A handler suspended at its await of the media adapter: what its closure
\* holds.  detached: the peer object it holds is no longer in the room.
Suspended(op, socketId, channelId, roomId, kind, appType, transportId, producerId) ==
  [op |-> op, socket |-> socketId, user |-> sockets[socketId].user, channelId |-> channelId,
   roomId |-> roomId, kind |-> kind, appType |-> appType, transportId |-> transportId,
   producerId |-> producerId, roleId |-> NULL, detached |-> FALSE]

Suspend(h) ==
  /\ h \notin pending
  /\ pending' = pending \cup {h}
  /\ emitted' = <<>>
  /\ UNCHANGED <<gatewayVars, voiceParticipants, userVoiceChannel, speakingUsers, voiceUsersCache, sfuRooms,
                 media>>

MediaObject(type, kind, appType, of) ==
  [type |-> type, kind |-> kind, appType |-> appType, of |-> of, closed |-> FALSE]

addMedia(id, object) == [m \in DOMAIN media \cup {id} |-> IF m = id THEN object ELSE media[m]]

\* The write peer.<field>.set(id, ...) of a resumed handler: it reaches the
\* room's peer only if the handler's peer object is still that peer.
peerSet(rooms, h, field, id) ==
  IF h.detached \/ h.socket \notin DOMAIN rooms[h.roomId].peers THEN rooms
  ELSE [rooms EXCEPT ![h.roomId].peers[h.socket][field] = @ \cup {id}]

\* socket.on("voice:createSendTransport") and socket.on("voice:createRecvTransport")
\* up to the await
CreateTransport(socketId, channelArg) ==
  /\ Listening(socketId)
  /\ UNCHANGED <<storeVars, httpVars, socketRateLimits>>
  /\ LET channelId == payloadChannel(socketId, channelArg)
         roomId == findRoomForSocket(channelId, socketId)
     IN IF roomId = NULL \/ socketId \notin DOMAIN sfuRooms[roomId].peers
        THEN AckOnly(socketId, "voice:createTransport", "Not in voice channel")
        ELSE Suspend(Suspended("createTransport", socketId, channelId, roomId, NULL, NULL, NULL, NULL))

\* ... and from the await on: sfu.createWebRtcTransport() resolved with the
\* transport transportId, or rejected.
CreateTransportDone(h, transportId, resolved) ==
  /\ h \in pending /\ h.op = "createTransport"
  /\ pending' = pending \ {h}
  /\ UNCHANGED <<storeVars, httpVars, socketRateLimits, gatewayVars, voiceParticipants, userVoiceChannel,
                 speakingUsers, voiceUsersCache>>
  /\ IF resolved
     THEN /\ transportId \notin DOMAIN media
          /\ media' = addMedia(transportId, MediaObject("transport", NULL, NULL, NULL))
          /\ sfuRooms' = peerSet(sfuRooms, h, "transports", transportId)
          /\ emitted' = <<Msg(Room("ack", h.socket), "voice:createTransport", transportId)>>
     ELSE /\ emitted' = <<Msg(Room("ack", h.socket), "voice:createTransport", "error")>>
          /\ UNCHANGED <<media, sfuRooms>>

\* The gates of voice:produce: the error it acknowledges, "" for none.  The
\* permissions are those of channelId, the room is the one findRoomForSocket
\* found.
produceError(socketId, channelId, roomId, transportId, kind, appType) ==
  LET userId == sockets[socketId].user
      hasPeer == roomId # NULL /\ socketId \in DOMAIN sfuRooms[roomId].peers
      hasChannel == channelId \in DOMAIN channels
      perms == IF hasChannel THEN getPermissions(G, userId, channelId) ELSE {}
      voiceMuted == hasChannel /\ userId \in DOMAIN members /\ members[userId].voiceMuted
  IN IF ~hasPeer \/ transportId \notin sfuRooms[roomId].peers[socketId].transports
     THEN "Transport not found"
     ELSE IF kind = "audio" /\ VOICE_SPEAK \notin perms THEN "Missing voice permission"
     ELSE IF kind = "audio" /\ voiceMuted THEN "You are muted"
     ELSE IF (kind = "video" \/ appType \in {"screen", "screen-audio"}) /\ SCREENSHARE \notin perms
     THEN "Missing screenshare permission"
     ELSE ""

\* socket.on("voice:produce") up to the await
Produce(socketId, channelArg, transportId, kind, appType) ==
  /\ Listening(socketId)
  /\ UNCHANGED <<storeVars, httpVars, socketRateLimits>>
  /\ LET channelId == payloadChannel(socketId, channelArg)
         roomId == findRoomForSocket(channelId, socketId)
         error == produceError(socketId, channelId, roomId, transportId, kind, appType)
     IN IF error # ""
        THEN AckOnly(socketId, "voice:produce", error)
        ELSE Suspend(Suspended("produce", socketId, channelId, roomId, kind, appType,
                               transportId, NULL))

\* ... and from the await on: transport.produce() resolved with the producer
\* producerId, or rejected.
ProduceDone(h, producerId, resolved) ==
  /\ h \in pending /\ h.op = "produce"
  /\ pending' = pending \ {h}
  /\ UNCHANGED <<storeVars, httpVars, socketRateLimits, gatewayVars, voiceParticipants, userVoiceChannel,
                 speakingUsers, voiceUsersCache>>
  /\ IF resolved
     THEN /\ producerId \notin DOMAIN media
          /\ media' = addMedia(producerId, MediaObject("producer", h.kind, h.appType, h.transportId))
          /\ LET rooms1 == peerSet(sfuRooms, h, "producers", producerId)
                 producers == rooms1[h.roomId].producers
             IN sfuRooms' = [rooms1 EXCEPT ![h.roomId].producers =
                               [q \in DOMAIN producers \cup {producerId} |->
                                  IF q = producerId
                                  THEN [peerId |-> h.socket, userId |-> h.user]
                                  ELSE producers[q]]]
          /\ emitted' = <<Msg(Room("voice", h.channelId), "voice:newProducer",
                              <<producerId, h.socket>>),
                          Msg(Room("ack", h.socket), "voice:produce", producerId)>>
     ELSE /\ emitted' = <<Msg(Room("ack", h.socket), "voice:produce", "error")>>
          /\ UNCHANGED <<media, sfuRooms>>

\* socket.on("voice:closeProducer")
CloseProducer(socketId, channelArg, producerId) ==
  /\ Listening(socketId)
  /\ UNCHANGED <<storeVars, httpVars, socketRateLimits, gatewayVars, voiceParticipants, userVoiceChannel,
                 speakingUsers, voiceUsersCache, pending>>
  /\ LET channelId == payloadChannel(socketId, channelArg)
     IN IF /\ channelId \in DOMAIN sfuRooms
           /\ socketId \in DOMAIN sfuRooms[channelId].peers
           /\ producerId \in sfuRooms[channelId].peers[socketId].producers
        THEN LET producers == sfuRooms[channelId].producers
             IN /\ media' = closeMedia(media, {producerId})
                /\ sfuRooms' = [sfuRooms EXCEPT
                                  ![channelId].peers[socketId].producers = @ \ {producerId},
                                  ![channelId].producers =
                                     [q \in DOMAIN producers \ {producerId} |-> producers[q]]]
                /\ emitted' = <<Msg(Room("voice", channelId), "voice:producerClosed",
                                    <<producerId, socketId>>)>>
        ELSE /\ emitted' = <<>>
             /\ UNCHANGED <<media, sfuRooms>>

\* socket.on("voice:consume") up to the await; router.canConsume holds.
Consume(socketId, channelArg, transportId, producerId) ==
  /\ Listening(socketId)
  /\ UNCHANGED <<storeVars, httpVars, socketRateLimits>>
  /\ LET channelId == payloadChannel(socketId, channelArg)
         roomId == findRoomForSocket(channelId, socketId)
     IN IF \/ roomId = NULL
           \/ socketId \notin DOMAIN sfuRooms[roomId].peers
           \/ transportId \notin sfuRooms[roomId].peers[socketId].transports
        THEN AckOnly(socketId, "voice:consume", "Transport not found")
        ELSE IF producerId \notin DOMAIN sfuRooms[roomId].producers
        THEN AckOnly(socketId, "voice:consume", "Producer not found")
        ELSE Suspend(Suspended("consume", socketId, channelId, roomId, NULL, NULL,
                               transportId, producerId))

ConsumeDone_registersRejected(h, consumerId, resolved) ==
  /\ h \in pending /\ h.op = "consume"
  /\ pending' = pending \ {h}
  /\ UNCHANGED <<storeVars, httpVars, socketRateLimits, gatewayVars, voiceParticipants, userVoiceChannel,
                 speakingUsers, voiceUsersCache>>
  /\ consumerId \notin DOMAIN media
  /\ media' = addMedia(consumerId, MediaObject("consumer", NULL, NULL, h.producerId))
  /\ sfuRooms' = peerSet(sfuRooms, h, "consumers", consumerId)
  /\ emitted' = <<Msg(Room("ack", h.socket), "voice:consume",
                      IF resolved THEN consumerId ELSE "error")>>

\* ... and from the await on: transport.consume() resolved with the consumer
\* consumerId, or rejected.
ConsumeDone(h, consumerId, resolved) ==
  /\ h \in pending /\ h.op = "consume"
  /\ pending' = pending \ {h}
  /\ UNCHANGED <<storeVars, httpVars, socketRateLimits, gatewayVars, voiceParticipants, userVoiceChannel,
                 speakingUsers, voiceUsersCache>>
  /\ IF resolved
     THEN /\ consumerId \notin DOMAIN media
          /\ media' = addMedia(consumerId, MediaObject("consumer", NULL, NULL, h.producerId))
          /\ sfuRooms' = peerSet(sfuRooms, h, "consumers", consumerId)
          /\ emitted' = <<Msg(Room("ack", h.socket), "voice:consume", consumerId)>>
     ELSE /\ emitted' = <<Msg(Room("ack", h.socket), "voice:consume", "error")>>
          /\ UNCHANGED <<media, sfuRooms>>

\* socket.on("voice:connectTransport") up to the await
ConnectTransport(socketId, channelArg, transportId) ==
  /\ Listening(socketId)
  /\ UNCHANGED <<storeVars, httpVars, socketRateLimits>>
  /\ LET channelId == payloadChannel(socketId, channelArg)
         roomId == findRoomForSocket(channelId, socketId)
     IN IF \/ roomId = NULL
           \/ socketId \notin DOMAIN sfuRooms[roomId].peers
           \/ transportId \notin sfuRooms[roomId].peers[socketId].transports
        THEN AckOnly(socketId, "voice:connectTransport", "Transport not found")
        ELSE Suspend(Suspended("connectTransport", socketId, channelId, roomId, NULL, NULL,
                               transportId, NULL))

\* ... and from the await on: transport.connect() resolved, or rejected.
ConnectTransportDone(h, resolved) ==
  /\ h \in pending /\ h.op = "connectTransport"
  /\ pending' = pending \ {h}
  /\ emitted' = <<Msg(Room("ack", h.socket), "voice:connectTransport",
                      IF resolved THEN "ok" ELSE "error")>>
  /\ UNCHANGED <<storeVars, httpVars, socketRateLimits, gatewayVars, voiceParticipants,
                 userVoiceChannel, speakingUsers, voiceUsersCache, media, sfuRooms>>

\* socket.on("voice:resumeConsumer") up to the await; the handler holds the
\* consumer's id where the other handlers hold a producer's.
ResumeConsumer(socketId, channelArg, consumerId) ==
  /\ Listening(socketId)
  /\ UNCHANGED <<storeVars, httpVars, socketRateLimits>>
  /\ LET channelId == payloadChannel(socketId, channelArg)
         roomId == findRoomForSocket(channelId, socketId)
     IN IF \/ roomId = NULL
           \/ socketId \notin DOMAIN sfuRooms[roomId].peers
           \/ consumerId \notin sfuRooms[roomId].peers[socketId].consumers
        THEN AckOnly(socketId, "voice:resumeConsumer", "Consumer not found")
        ELSE Suspend(Suspended("resumeConsumer", socketId, channelId, roomId, NULL, NULL,
                               NULL, consumerId))

\* ... and from the await on: consumer.resume() resolved, or rejected.
ResumeConsumerDone(h, resolved) ==
  /\ h \in pending /\ h.op = "resumeConsumer"
  /\ pending' = pending \ {h}
  /\ emitted' = <<Msg(Room("ack", h.socket), "voice:resumeConsumer",
                      IF resolved THEN "ok" ELSE "error")>>
  /\ UNCHANGED <<storeVars, httpVars, socketRateLimits, gatewayVars, voiceParticipants,
                 userVoiceChannel, speakingUsers, voiceUsersCache, media, sfuRooms>>

\* The loop of closeUserAudioProducers over one peer's producers: the closed
\* ones leave the room's map and stay in the peer's.
RECURSIVE closeAudioProducers(_, _, _, _)
closeAudioProducers(st, channelId, socketId, producerIds) ==
  IF producerIds = <<>> THEN st
  ELSE LET pr == Head(producerIds)
           roomProducers == st.sfuRooms[channelId].producers
           st1 == IF st.media[pr].kind = "audio" \/ st.media[pr].appType = "screen-audio"
                  THEN Emit([st EXCEPT !.media = closeMedia(@, {pr}),
                                       !.sfuRooms[channelId].producers =
                                          [q \in DOMAIN roomProducers \ {pr} |-> roomProducers[q]]],
                            Room("voice", channelId), "voice:producerClosed", <<pr, socketId>>)
                  ELSE st
       IN closeAudioProducers(st1, channelId, socketId, Tail(producerIds))

\* closeUserAudioProducers(userId): the loop over the user's sockets.
RECURSIVE closeUserAudioProducers(_, _)
closeUserAudioProducers(st, socketIds) ==
  IF socketIds = <<>> THEN st
  ELSE LET socketId == Head(socketIds)
           channelId == st.sockets[socketId].voiceChannelId
           st1 == IF channelId # NULL /\ socketId \in DOMAIN st.sfuRooms[channelId].peers
                  THEN closeAudioProducers(st, channelId, socketId,
                                           SeqOf(st.sfuRooms[channelId].peers[socketId].producers))
                  ELSE st
       IN closeUserAudioProducers(st1, Tail(socketIds))

\* PATCH /api/guilds/:guildId/members/:userId/voice with body {voiceMuted}
PatchVoice(actorId, targetId, voiceMuted) ==
  IF ~requireNotBanned(actorId) THEN Reply(actorId, 403)
  ELSE IF /\ VOICE_MUTE_MEMBERS \notin getPermissions(G, actorId, NULL)
          /\ VOICE_DEAFEN_MEMBERS \notin getPermissions(G, actorId, NULL)
       THEN Reply(actorId, 403)
  ELSE IF ~canManageMember(G, actorId, targetId) THEN Reply(actorId, 403)
  ELSE /\ members' = IF VOICE_MUTE_MEMBERS \in getPermissions(G, actorId, NULL)
                     THEN updateMember(targetId, "voiceMuted", voiceMuted)
                     ELSE members
       /\ LET st1 == Emit(GW, Room("guild", G), "member:update", targetId)
              st2 == closeUserAudioProducers(st1, SeqOf(userSockets[targetId]))
          IN SetGW(Emit(st2, Room("http", actorId), "response", 200))
       /\ audit' = addAudit("member.voice")
       /\ UNCHANGED <<roles, channels, messages, uploads, profiles, bans, now, guilds, httpVars, drawn, files, settings, socketRateLimits>>

\* CACHE_TTL_MS and the period of the sweep's setInterval, in seconds.
CACHE_TTL == 5
SWEEP_INTERVAL == 60

\* The sweep of identity.js run at time at: the entries with expiresAt <= at
\* are deleted.
sweep(cache, at) == [t \in {k \in DOMAIN cache : cache[k].expiresAt > at} |-> cache[t]]

\* The token cache once the clock has gone from from to to: the sweep has
\* run at the multiple of SWEEP_INTERVAL that was passed, if one was.
sweepDue(cache, from, to) ==
  IF to \div SWEEP_INTERVAL > from \div SWEEP_INTERVAL
  THEN sweep(cache, (to \div SWEEP_INTERVAL) * SWEEP_INTERVAL)
  ELSE cache

\* d seconds pass; the timers that fall due run.
Elapse(d) ==
  /\ now' = now + d
  /\ tokenCache' = sweepDue(tokenCache, now, now')
  /\ UNCHANGED <<members, roles, channels, messages, uploads, profiles, bans, guilds, drawn, files,
                 settings, audit, rateBuckets, ADMIN_KEY, gatewayVars, voiceVars, emitted>>

\* A minute passes.
Tick == now < MaxTime * 60 /\ Elapse(60)

(***************************************************************************)
(* SpecPerm: the permission engine under the requests that change its      *)
(* inputs.                                                                 *)
(***************************************************************************)
Ov(allow, deny) == [allow |-> allow, deny |-> deny]

\* Bodies of PATCH /api/channels/:channelId: the override objects tried.
OverrideChoices ==
  { NullOverrides,
    [roles |-> (G :> Ov({}, {SEND_MESSAGES})), members |-> EmptyMap],
    [roles |-> ("r1" :> Ov({}, {SEND_MESSAGES})),
     members |-> ("u2" :> Ov({SEND_MESSAGES}, {}))],
    [roles |-> (G :> Ov({MANAGE_MESSAGES}, {VIEW_CHANNELS})
                @@ "r1" :> Ov({VIEW_CHANNELS}, {MANAGE_MESSAGES})),
     members |-> ("u2" :> Ov({}, {ATTACH_FILES}))],
    [roles |-> EmptyMap, members |-> ("u2" :> Ov({ADMINISTRATOR}, {}))] }

\* Bodies of PATCH /api/channels/cat.
CategoryOverrideChoices ==
  { NullOverrides,
    [roles |-> (G :> Ov({}, {SEND_MESSAGES})),
     members |-> ("u2" :> Ov({MANAGE_MESSAGES}, {VIEW_CHANNELS}))] }

RolePermChoices == {{}, {SEND_MESSAGES, ATTACH_FILES}}

NextPerm ==
  \/ \E u \in Users : GetGuilds(u)
  \/ \E a \in Users, o \in OverrideChoices : PatchChannel(a, "txt", o)
  \/ \E a \in Users, o \in CategoryOverrideChoices : PatchChannel(a, "cat", o)
  \/ \E a \in Users, p \in RolePermChoices : PostRole(a, "r1", p)
  \/ \E a \in Users, m \in {0, 1} : PatchTimeout(a, "u2", m)
  \/ \E rs \in SUBSET {ADMIN_ROLE, "r1"} : AdminPatchMemberRoles("u2", rs)
  \/ Tick

SpecPerm == Init /\ [][NextPerm]_vars

(***************************************************************************)
(* SpecBan: the handshake, the listeners and the routes of users who get   *)
(* banned and unbanned.  u1 connects with up to two sockets, u2 with one.  *)
(***************************************************************************)
Tokens == {<<"s1", "u1">>, <<"s2", "u1">>, <<"s2", "u2">>}

NextBan ==
  \/ \E t \in Tokens : SocketAuth(t[1], t[2])
  \/ \E s \in SocketIds : Connection(s)
  \/ \E s \in SocketIds : ClientDisconnect(s)
  \/ \E s \in SocketIds : ChannelJoin(s, "txt")
  \/ \E s \in SocketIds : MessageSend(s, "txt", "m1", "hi", <<>>, NULL)
  \/ \E u \in Users : GetGuilds(u)
  \/ \E u \in Users : PostMessage(u, "txt", "m1", "hi", <<>>)
  \/ \E u \in Users : PostGuilds(u)
  \/ \E u \in Users : PostLeave(u)
  \/ \E a \in Users, t \in Users : PostBan(a, t)
  \/ \E t \in Users : AdminBan(t)
  \/ \E t \in Users : AdminUnban(t)

SpecBan == Init /\ [][NextBan]_vars

(***************************************************************************)
(* SpecKick: bans of users whose sockets are in voice channels.            *)
(***************************************************************************)
MaxJoins == 1

\* At most MaxJoins counted voice:join requests of the user of the socket.
JoinBudget(socketId) ==
  LET userId == sockets[socketId].user
  IN IF userId \in DOMAIN socketRateLimits
     THEN socketRateLimits[userId].count < MaxJoins
     ELSE TRUE

NextKick ==
  \/ \E t \in Tokens : SocketAuth(t[1], t[2])
  \/ \E s \in SocketIds : Connection(s)
  \/ \E s \in SocketIds : ClientDisconnect(s)
  \/ \E c \in {"vc1", "vc2"} : JoinBudget("s1") /\ VoiceJoin("s1", c)
  \/ JoinBudget("s2") /\ VoiceJoin("s2", "vc1")
  \/ \E a \in Users, t \in Users : PostBan(a, t)
  \/ \E t \in Users : AdminBan(t)

SpecKick == Init /\ [][NextKick]_vars

(***************************************************************************)
(* SpecPurge: the rows of a user under the routes that purge.              *)
(***************************************************************************)
NextPurge ==
  \/ \E u \in Users : GetGuilds(u)
  \/ SocketAuth("s1", "u2")
  \/ Connection("s1")
  \/ PostMessage("u1", "txt", "m1", "hi", <<>>)
  \/ MessageSend("s1", "txt", "m2", "hi", <<>>, NULL)
  \/ PostUpload("u2", "txt")
  \/ \E h \in pending : PostUploadHandler(h, "f1")
  \/ \E u \in Users : PostLeave(u)
  \/ PostKick("u1", "u2")
  \/ PostBan("u1", "u2")
  \/ AdminKick("u2")
  \/ AdminBan("u2")
  \/ AdminUnban("u2")

SpecPurge == Init /\ [][NextPurge]_vars

(***************************************************************************)
(* The voice rooms.  The media worker hands out the ids of MediaIds in     *)
(* order.                                                                  *)
(***************************************************************************)
MaxMedia == 3

\* At most MaxPending handlers are suspended at an await at a time.
MaxPending == 1

CanSuspend == Cardinality(pending) < MaxPending

MediaIds == <<"o1", "o2", "o3", "o4", "o5", "o6">>

CanAllocate == Cardinality(DOMAIN media) < MaxMedia

FreshMedia == MediaIds[Cardinality(DOMAIN media) + 1]

MediaOfType(type) == {m \in DOMAIN media : media[m].type = type}

(***************************************************************************)
(* SpecProduce: u1 uses the routes, u2 connects with s2, joins a voice     *)
(* channel and produces.                                                   *)
(***************************************************************************)
\* Bodies of PATCH /api/channels/vc1.
VoiceOverrideChoices ==
  { NullOverrides,
    [roles |-> (G :> Ov({}, {VOICE_SPEAK, SCREENSHARE})), members |-> EmptyMap] }

ProduceArgs == {<<"audio", "">>, <<"video", "">>, <<"audio", "screen-audio">>}

NextProduce ==
  \/ GetGuilds("u1")
  \/ SocketAuth("s2", "u2")
  \/ Connection("s2")
  \/ \E c \in {"vc1", "vc2"} : JoinBudget("s2") /\ VoiceJoin("s2", c)
  \/ CanSuspend /\ CreateTransport("s2", NULL)
  \/ \E h \in pending, ok \in BOOLEAN : CanAllocate /\ CreateTransportDone(h, FreshMedia, ok)
  \/ \E c \in {NULL, "vc2"}, t \in DOMAIN media, ka \in ProduceArgs :
       CanSuspend /\ Produce("s2", c, t, ka[1], ka[2])
  \/ \E h \in pending, ok \in BOOLEAN : CanAllocate /\ ProduceDone(h, FreshMedia, ok)
  \/ \E o \in VoiceOverrideChoices : PatchChannel("u1", "vc1", o)
  \/ \E m \in BOOLEAN : PatchVoice("u1", "u2", m)

SpecProduce == Init /\ [][NextProduce]_vars

(***************************************************************************)
(* SpecLeave: u2 connects with s2, joins voice channels, produces,         *)
(* consumes, leaves and disconnects.                                       *)
(***************************************************************************)
NextLeave ==
  \/ SocketAuth("s2", "u2")
  \/ Connection("s2")
  \/ ClientDisconnect("s2")
  \/ \E c \in {"vc1", "vc2"} : JoinBudget("s2") /\ VoiceJoin("s2", c)
  \/ VoiceLeave("s2")
  \/ pending = {} /\ CreateTransport("s2", NULL)
  \/ \E h \in pending : CanAllocate /\ CreateTransportDone(h, FreshMedia, TRUE)
  \/ \E t \in MediaOfType("transport") :
       pending = {} /\ Produce("s2", NULL, t, "audio", "")
  \/ \E h \in pending : CanAllocate /\ ProduceDone(h, FreshMedia, TRUE)
  \/ \E t \in MediaOfType("transport"), p \in MediaOfType("producer") :
       pending = {} /\ Consume("s2", NULL, t, p)
  \/ \E h \in pending : CanAllocate /\ ConsumeDone(h, FreshMedia, TRUE)

SpecLeave == Init /\ [][NextLeave]_vars

(***************************************************************************)
(* SpecJoin: u2 connects with s2 and sends voice:join again and again,     *)
(* while u1 changes the overrides of vc2 and the clock advances.           *)
(***************************************************************************)
\* Bodies of PATCH /api/channels/vc2.
JoinOverrideChoices ==
  { NullOverrides,
    [roles |-> (G :> Ov({}, {VOICE_CONNECT})), members |-> EmptyMap],
    [roles |-> (G :> Ov({}, {VIEW_CHANNELS})), members |-> EmptyMap] }

NextJoin ==
  \/ GetGuilds("u1")
  \/ SocketAuth("s2", "u2")
  \/ Connection("s2")
  \/ \E c \in {"txt", "vc1", "vc2"} : VoiceJoin("s2", c)
  \/ media = NoMedia /\ pending = {} /\ CreateTransport("s2", NULL)
  \/ \E h \in pending : CanAllocate /\ CreateTransportDone(h, FreshMedia, TRUE)
  \/ \E t \in MediaOfType("transport") :
       MediaOfType("producer") = {} /\ pending = {} /\ Produce("s2", NULL, t, "audio", "")
  \/ \E h \in pending : CanAllocate /\ ProduceDone(h, FreshMedia, TRUE)
  \/ \E o \in JoinOverrideChoices : PatchChannel("u1", "vc2", o)
  \/ Tick

SpecJoin == Init /\ [][NextJoin]_vars

(***************************************************************************)
(* The permission engine: C1, C2, C3.                                      *)
(***************************************************************************)
ChannelArgs == ChannelIds \cup {NULL}

\* C1 as claimed: whenever the mask getPermissions returns has the ADMINISTRATOR
\* bit, it is the full mask ALL_PERMISSIONS, whatever the overrides and the
\* member's timeout.  (The code lets an override allow ADMINISTRATOR.)
C1_AdminBitMeansFullMask ==
  \A u \in Users, c \in ChannelArgs :
    ADMINISTRATOR \in getPermissions(G, u, c) => getPermissions(G, u, c) = ALL_PERMISSIONS

\* The reference algorithm of C2, bit by bit.  The layers in the order they
\* are applied: the category's @everyone override, the union of the
\* category's overrides of the member's other roles, the category's member
\* override, then the same three of the channel.  A bit a layer both denies
\* and allows is allowed by it.
RefLayersOf(o, userId) ==
  LET roleIds == members[userId].roleIds \cup {G}
      rs == (roleIds \ {G}) \cap DOMAIN o.roles
  IN << IF G \in DOMAIN o.roles THEN o.roles[G] ELSE Ov({}, {}),
        Ov(UNION {o.roles[r].allow : r \in rs}, UNION {o.roles[r].deny : r \in rs}),
        IF userId \in DOMAIN o.members THEN o.members[userId] ELSE Ov({}, {}) >>

RefLayers(userId, channelId) ==
  IF channelId \notin DOMAIN channels THEN <<>>
  ELSE (IF channels[channelId].categoryId \in DOMAIN channels
        THEN RefLayersOf(channels[channels[channelId].categoryId].permissionOverrides, userId)
        ELSE <<>>)
       \o RefLayersOf(channels[channelId].permissionOverrides, userId)

RefPermissions(userId, channelId) ==
  LET layers == RefLayers(userId, channelId)
      base == UNION {roles[r].permissions : r \in (members[userId].roleIds \cup {G}) \cap DOMAIN roles}
      said(b) == {i \in 1..Len(layers) : b \in layers[i].allow \cup layers[i].deny}
  IN {b \in ALL_PERMISSIONS :
        IF said(b) = {} THEN b \in base ELSE b \in layers[Max(said(b))].allow}

RoleAdmin(userId) == ADMINISTRATOR \in rolePermissions(G, userId)

\* C2: for a member whose roles do not grant ADMINISTRATOR and who is not in
\* timeout, getPermissions equals the reference algorithm; in particular a
\* member override's allow wins over a role override's deny in the same
\* channel, and the channel's overrides win over the category's.
C2_MatchesReference ==
  \A u \in DOMAIN members, c \in ChannelArgs :
    (~RoleAdmin(u) /\ ~inTimeout(u)) =>
      /\ getPermissions(G, u, c) = RefPermissions(u, c)
      /\ c \in DOMAIN channels =>
           LET o == channels[c].permissionOverrides
               own == RefLayersOf(o, u)
           IN /\ u \in DOMAIN o.members => o.members[u].allow \subseteq getPermissions(G, u, c)
              /\ \A b \in ALL_PERMISSIONS :
                   (\E i \in 1..3 : b \in own[i].allow \cup own[i].deny) =>
                     (b \in getPermissions(G, u, c)) =
                       (b \in applyOverrides({}, o, G, memberRoleIds(G, u), u))

\* C2 witness: scenario 1 of the specification under a category that denies
\* the bit to @everyone: u2 holds r1, the channel denies SEND_MESSAGES to r1
\* and allows it to u2, and u2 can send.
C2_Witness ==
  /\ "u2" \in DOMAIN members /\ ~RoleAdmin("u2") /\ ~inTimeout("u2")
  /\ "r1" \in members["u2"].roleIds
  /\ G \in DOMAIN channels["cat"].permissionOverrides.roles
  /\ SEND_MESSAGES \in channels["cat"].permissionOverrides.roles[G].deny
  /\ "r1" \in DOMAIN channels["txt"].permissionOverrides.roles
  /\ SEND_MESSAGES \in channels["txt"].permissionOverrides.roles["r1"].deny
  /\ SEND_MESSAGES \in getPermissions(G, "u2", "txt")
  /\ SEND_MESSAGES \notin getPermissions(G, "u2", "cat")

\* C3 as claimed: a member in timeout has none of the TIMEOUT_BLOCKED bits in
\* any channel or at guild level.  (An administrator in timeout keeps them.)
C3_TimeoutBlocksEveryMember ==
  \A u \in DOMAIN members, c \in ChannelArgs :
    inTimeout(u) => getPermissions(G, u, c) \cap TIMEOUT_BLOCKED = {}

\* C3 amended: a member in timeout whose roles do not grant ADMINISTRATOR has
\* none of the TIMEOUT_BLOCKED bits in any channel or at guild level.
C3_TimeoutBlocksNonAdmin ==
  \A u \in DOMAIN members, c \in ChannelArgs :
    (inTimeout(u) /\ ~RoleAdmin(u)) => getPermissions(G, u, c) \cap TIMEOUT_BLOCKED = {}

\* C3 witness: u2, not an administrator, is in timeout in a channel whose
\* member override allows SEND_MESSAGES, and cannot send.
C3_Witness ==
  /\ "u2" \in DOMAIN members /\ inTimeout("u2") /\ ~RoleAdmin("u2")
  /\ "u2" \in DOMAIN channels["txt"].permissionOverrides.members
  /\ SEND_MESSAGES \in channels["txt"].permissionOverrides.members["u2"].allow
  /\ SEND_MESSAGES \notin getPermissions(G, "u2", "txt")
  /\ VIEW_CHANNELS \in getPermissions(G, "u2", "txt")

(***************************************************************************)
(* Bans: C4, C5, C6, C7.                                                   *)
(***************************************************************************)
\* A socket event of the socket is handled in this step.
InboundEvent(socketId) ==
  \/ ChannelJoin(socketId, "txt")
  \/ MessageSend(socketId, "txt", "m1", "hi", <<>>, NULL)
  \/ GuildJoinRoom(socketId)

\* A request of the user to a route that has requireNotBanned is served in
\* this step.
GuardedRequest(userId) ==
  \/ GetGuilds(userId)
  \/ PostMessage(userId, "txt", "m1", "hi", <<>>)
  \/ \E t \in Users : PostBan(userId, t)

Refused(userId) ==
  /\ emitted' = <<Response(userId, 403)>>
  /\ UNCHANGED <<storeVars, httpVars, gatewayVars, voiceVars>>

\* C4: a socket of a banned user is never connected, is in no room and is
\* not tracked; the connection handler closes the socket of a banned user
\* without registering anything; no socket event of a banned user is handled;
\* a route with requireNotBanned answers a banned user 403 and changes nothing.
C4_BannedCannotConnectNorPass ==
  /\ [](\A s \in SocketIds :
          isBanned(sockets[s].user) =>
            /\ sockets[s].state # "open"
            /\ sockets[s].rooms = {}
            /\ s \notin DOMAIN sessionUsers
            /\ s \notin userSockets[sockets[s].user])
  /\ [][\A s \in SocketIds :
          /\ (Connection(s) /\ isBanned(sockets[s].user)) =>
               (sockets'[s] = NoSocket /\ UNCHANGED <<userSockets, sessionUsers, storeVars, httpVars>>)
          /\ InboundEvent(s) => ~isBanned(sockets[s].user)]_vars
  /\ [][\A u \in Users : (isBanned(u) /\ GuardedRequest(u)) => Refused(u)]_vars

\* C4 witness: the handshake of a banned user was just refused.
C4_Witness ==
  \E s \in SocketIds :
    /\ emitted = <<Msg(Room("socket", s), "auth:banned", "banned"),
                   Msg(Room("socket", s), "disconnect", "server")>>
    /\ sockets[s] = NoSocket
    /\ bans # {}

\* C6 as claimed: every request of a banned user to a route behind
\* authMiddleware is answered 403 with nothing changed, and no socket event
\* of a banned user is handled.  (POST /api/guilds and POST
\* /api/guilds/:guildId/leave have no requireNotBanned.)
C6_EveryEntrypointChecksBan ==
  /\ [][\A u \in Users :
          (isBanned(u) /\ (GuardedRequest(u) \/ PostGuilds(u) \/ PostLeave(u))) => Refused(u)]_vars
  /\ [][\A s \in SocketIds : InboundEvent(s) => ~isBanned(sockets[s].user)]_vars

NoRows(userId) ==
  /\ userId \notin DOMAIN members
  /\ \A m \in messages : m.authorId # userId
  /\ \A x \in uploads : x.authorId # userId
  /\ userId \notin profiles

\* A ban of targetId passes its gates in this step.
BanCompletes(targetId) ==
  \/ AdminBan(targetId)
  \/ \E a \in Users : PostBan(a, targetId) /\ emitted'[Len(emitted')] = Response(a, 200)

Position(seq, msg) == CHOOSE i \in 1..Len(seq) : seq[i] = msg

InSeq(seq, msg) == \E i \in 1..Len(seq) : seq[i] = msg

\* No session of the user is in a voice channel or a voice room.
NotInVoice(userId) ==
  \A c \in ChannelIds, s \in SocketIds :
    (s \in voiceParticipants[c] \/ s \in DOMAIN sfuRooms[c].peers) =>
      (s \in DOMAIN sessionUsers /\ sessionUsers[s] # userId /\ sfuRooms[c].peers[s].userId # userId)

\* C5: when a ban completes the target is banned and has no row left; each
\* socket the target had was sent guild:kicked with reason "banned" and was
\* closed after that; no socket of the target is tracked any more and no
\* session of the target is in a voice room, for as long as the ban lasts.
C5_BanKicksThenCloses ==
  /\ [][\A t \in Users :
          BanCompletes(t) =>
            /\ isBanned(t)' /\ NoRows(t)'
            /\ \A s \in userSockets[t] :
                 /\ InSeq(emitted', Msg(Room("socket", s), "guild:kicked", "banned"))
                 /\ InSeq(emitted', Msg(Room("socket", s), "disconnect", "server"))
                 /\ Position(emitted', Msg(Room("socket", s), "guild:kicked", "banned"))
                      < Position(emitted', Msg(Room("socket", s), "disconnect", "server"))
                 /\ sockets'[s] = NoSocket
                 /\ userVoiceChannel'[s] = NULL
            /\ userSockets'[t] = {}
            /\ NotInVoice(t)']_vars
  /\ [](\A t \in bans : userSockets[t] = {} /\ NotInVoice(t))

\* C5 witness: u1 has just been banned with two sockets connected, one of
\* them in a voice channel.
C5_Witness ==
  /\ "u1" \in bans
  /\ InSeq(emitted, Msg(Room("socket", "s1"), "guild:kicked", "banned"))
  /\ InSeq(emitted, Msg(Room("socket", "s2"), "guild:kicked", "banned"))
  /\ \E c \in {"vc1", "vc2"} : InSeq(emitted, Msg(Room("voice", c), "voice:presence", {}))

\* A route that purges targetId passes its gates in this step and answers
\* callerId.
PurgeCompletes(callerId, targetId) ==
  \/ callerId = targetId /\ isGuildMember(G, targetId) /\ PostLeave(targetId)
  \/ callerId \in Users /\ PostKick(callerId, targetId)
       /\ emitted'[Len(emitted')] = Response(callerId, 200)
  \/ callerId \in Users /\ PostBan(callerId, targetId)
       /\ emitted'[Len(emitted')] = Response(callerId, 200)
  \/ callerId = OPERATOR /\ (AdminKick(targetId) \/ AdminBan(targetId))

\* C7: when leave, kick, ban, admin kick or admin ban purges a user, the
\* store holds no member row, message, upload or profile of that user, and
\* the response is the last thing the handler sends.
C7_PurgeLeavesNoRow ==
  [][\A c \in Users \cup {OPERATOR}, t \in Users :
       PurgeCompletes(c, t) =>
         /\ NoRows(t)'
         /\ emitted'[Len(emitted')] = Response(c, 200)
         /\ \A i \in 1..(Len(emitted') - 1) : emitted'[i].event # "response"]_vars

\* C7 witness: u2, who was connected, has just been purged and has no row,
\* while rows of u1 remain.
C7_Witness ==
  /\ InSeq(emitted, Msg(Room("guild", G), "guild:memberLeft", "u2"))
  /\ InSeq(emitted, Msg(Room("socket", "s1"), "guild:kicked", "kicked"))
  /\ NoRows("u2")
  /\ \E m \in messages : m.authorId = "u1"
  /\ "u1" \in profiles /\ "u1" \in DOMAIN members

(***************************************************************************)
(* Voice: C8, C9, C10.                                                     *)
(***************************************************************************)
\* The voice channel of the room the socket is a peer of, NULL for none.
RoomOf(socketId) ==
  IF \E c \in ChannelIds : socketId \in DOMAIN sfuRooms[c].peers
  THEN CHOOSE c \in ChannelIds : socketId \in DOMAIN sfuRooms[c].peers
  ELSE NULL

\* C8 as claimed: a voice:produce request goes on to create and register a
\* producer only if, in the voice channel of the room the peer is in, the
\* user has VOICE_SPEAK and is not server-muted (kind audio) and has
\* SCREENSHARE (kind video, or type screen or screen-audio).  (The handler
\* reads the permissions of the channel the request names.)
C8_ProduceGatedByRoomChannel ==
  [][\A s \in SocketIds, c \in ChannelIds \cup {NULL}, t \in DOMAIN media, ka \in ProduceArgs :
       (Produce(s, c, t, ka[1], ka[2]) /\ pending' # pending) =>
         LET userId == sockets[s].user
             perms == getPermissions(G, userId, RoomOf(s))
         IN /\ RoomOf(s) # NULL
            /\ ka[1] = "audio" =>
                 (VOICE_SPEAK \in perms /\ ~members[userId].voiceMuted)
            /\ (ka[1] = "video" \/ ka[2] \in {"screen", "screen-audio"}) =>
                 SCREENSHARE \in perms]_vars

JoinAcked(socketId, result) ==
  emitted'[Len(emitted')] = Msg(Room("ack", socketId), "voice:join", result)

\* C9: a voice:join that is acknowledged ok names an existing voice channel
\* on which the user has VIEW_CHANNELS and VOICE_CONNECT; the session has
\* then left the channel it was in (whose presence, without the session, is
\* published first) and is a participant and a fresh peer of the new one
\* (whose presence, with the session, is published after); a voice:join
\* acknowledged with an error leaves the voice membership, the rooms, the
\* media objects and the socket as they were.
C9_JoinGatedAndRejectedJoinChangesNothing ==
  [][\A s \in SocketIds, c \in ChannelIds :
       VoiceJoin(s, c) =>
         IF JoinAcked(s, "ok")
         THEN LET userId == sockets[s].user
                  old == userVoiceChannel[s]
                  left == Msg(Room("voice", old), "voice:presence", voiceParticipants[old] \ {s})
                  joined == Msg(Room("voice", c), "voice:presence", voiceParticipants'[c])
              IN /\ c \in DOMAIN channels /\ channels[c].type = "voice"
                 /\ {VIEW_CHANNELS, VOICE_CONNECT} \subseteq getPermissions(G, userId, c)
                 /\ userVoiceChannel'[s] = c
                 /\ s \in voiceParticipants'[c]
                 /\ s \in DOMAIN sfuRooms'[c].peers
                 /\ sfuRooms'[c].peers[s] = NewPeer(userId, c)
                 /\ InSeq(emitted', joined)
                 /\ old # NULL =>
                      /\ InSeq(emitted', left)
                      /\ Position(emitted', left) < Position(emitted', joined)
                      /\ old # c => (s \notin voiceParticipants'[old]
                                     /\ s \notin DOMAIN sfuRooms'[old].peers)
         ELSE UNCHANGED <<voiceParticipants, userVoiceChannel, speakingUsers, voiceUsersCache, sfuRooms,
                          media, pending, sockets>>]_vars

\* C9 witness: a voice:join of s2 was just refused by the rate limit while
\* s2 is a peer that holds a producer.
C9_Witness ==
  /\ emitted = <<Msg(Room("ack", "s2"), "voice:join", "Too many join attempts. Please slow down.")>>
  /\ userVoiceChannel["s2"] # NULL
  /\ sfuRooms[userVoiceChannel["s2"]].peers["s2"].producers # {}

MaxRejoins == 2

\* At most MaxRejoins counted voice:join requests of the user of the socket.
RejoinBudget(socketId) ==
  LET userId == sockets[socketId].user
  IN IF userId \in DOMAIN socketRateLimits
     THEN socketRateLimits[userId].count < MaxRejoins
     ELSE TRUE

\* The transports of the peer of socketId in vc1.
TransportsOf(socketId) ==
  IF socketId \in DOMAIN sfuRooms["vc1"].peers
  THEN sfuRooms["vc1"].peers[socketId].transports
  ELSE {}

NextMute ==
  \/ GetGuilds("u1")
  \/ \E s \in SocketIds : SocketAuth(s, "u2")
  \/ \E s \in SocketIds : Connection(s)
  \/ \E s \in SocketIds : RejoinBudget(s) /\ VoiceJoin(s, "vc1")
  \/ \E s \in SocketIds : TransportsOf(s) = {} /\ CanSuspend /\ CreateTransport(s, NULL)
  \/ \E h \in pending : CanAllocate /\ CreateTransportDone(h, FreshMedia, TRUE)
  \/ \E s \in SocketIds, ka \in ProduceArgs :
       \E t \in TransportsOf(s) : CanSuspend /\ Produce(s, NULL, t, ka[1], ka[2])
  \/ \E h \in pending : CanAllocate /\ ProduceDone(h, FreshMedia, TRUE)
  \/ \E m \in BOOLEAN : PatchVoice("u1", "u2", m)

SpecMute == Init /\ [][NextMute]_vars

\* The producers of the room of channelId that socketId owns.
OwnedIn(rooms, channelId, socketId) ==
  {pr \in DOMAIN rooms[channelId].producers : rooms[channelId].producers[pr].peerId = socketId}

\* A producer closeUserAudioProducers is to close.
IsAudio(pr) == media[pr].kind = "audio" \/ media[pr].appType = "screen-audio"

\* C11 as claimed: when PATCH .../members/t/voice has run forceMuteUser(t),
\* then for every session of t that is a peer of a voice room, the room's
\* producer map holds no producer of that session of kind audio or of type
\* screen-audio, voice:producerClosed went to the voice room for each such
\* producer the room held, and the session's open video producers are still
\* open and registered with the room and the peer.
C11_ForceMuteClosesAudio ==
  [][\A a \in Users, t \in Users, m \in BOOLEAN :
       (PatchVoice(a, t, m) /\ emitted'[Len(emitted')] = Response(a, 200)) =>
         \A s \in userSockets[t], c \in ChannelIds :
           s \in DOMAIN sfuRooms[c].peers =>
             /\ \A pr \in OwnedIn(sfuRooms', c, s) : ~IsAudio(pr)
             /\ \A pr \in OwnedIn(sfuRooms, c, s) :
                  IsAudio(pr) =>
                    /\ media'[pr].closed
                    /\ InSeq(emitted', Msg(Room("voice", c), "voice:producerClosed", <<pr, s>>))
             /\ \A pr \in OwnedIn(sfuRooms, c, s) :
                  (~IsAudio(pr) /\ ~media[pr].closed) =>
                    /\ ~media'[pr].closed
                    /\ pr \in OwnedIn(sfuRooms', c, s)
                    /\ (pr \in sfuRooms[c].peers[s].producers
                          => pr \in sfuRooms'[c].peers[s].producers)]_vars

(***************************************************************************)
(* SpecMsg: uploads, and messages with attachments sent through the route  *)
(* and through the socket of u2.                                            *)
(***************************************************************************)
MaxMessages == 2
MaxUploads == 2

MessageIds == <<"m1", "m2", "m3", "m4">>

UploadIds == <<"f1", "f2", "f3">>

\* The next ids uuid() draws.
FreshMessage == MessageIds[Cardinality(drawn \cap {"m1", "m2", "m3", "m4"}) + 1]

FreshUpload == UploadIds[Cardinality(drawn \cap {"f1", "f2", "f3"}) + 1]

\* The attachments lists of the requests: none, the first upload by id and
\* url, by url alone, by id alone, twice, and an item with neither.
AttachmentChoices ==
  { <<>>,
    <<Attachment("f1", FileUrl("f1"))>>,
    <<Attachment(NULL, FileUrl("f1"))>>,
    <<Attachment("f1", NULL)>>,
    <<Attachment("f1", FileUrl("f1")), Attachment("f1", FileUrl("f1"))>>,
    <<Attachment(NULL, NULL)>> }

NextMsg ==
  \/ \E u \in Users : GetGuilds(u)
  \/ SocketAuth("s2", "u2")
  \/ Connection("s2")
  \/ \E u \in Users : CanSuspend /\ PostUpload(u, "txt")
  \/ \E h \in pending :
       Cardinality(drawn \cap {"f1", "f2", "f3"}) < MaxUploads /\ PostUploadHandler(h, FreshUpload)
  \/ \E u \in Users, content \in {"", "hi"}, a \in AttachmentChoices :
       Cardinality(messages) < MaxMessages /\ PostMessage(u, "txt", FreshMessage, content, a)
  \/ \E content \in {"", " ", "hi"}, a \in AttachmentChoices :
       Cardinality(messages) < MaxMessages
         /\ MessageSend("s2", "txt", FreshMessage, content, a, NULL)

SpecMsg == Init /\ [][NextMsg]_vars

(***************************************************************************)
(* Messages and attachments: C12, C13.                                     *)
(***************************************************************************)
\* The upload rows an attachment names, by its id or else by its url.
UploadsNamed(item) ==
  IF item.id # NULL THEN {x \in uploads : x.id = item.id}
  ELSE {x \in uploads : x.url = item.url}

\* C12 as claimed: every attachment of a stored message names an upload row
\* of the message's channel and author.  (POST /api/channels/:c/messages
\* stores the attachments of the body without looking at the uploads.)
C12_AttachmentsHaveOwnedUpload ==
  \A m \in messages :
    \A i \in 1..Len(m.attachments) :
      \E x \in UploadsNamed(m.attachments[i]) :
        x.channelId = m.channelId /\ x.authorId = m.authorId

\* The attachments the claim keeps: the uploads the items name that belong to
\* the channel and the sender, each once, in the order of the items.
RECURSIVE KeptAttachments(_, _, _, _)
KeptAttachments(channelId, authorId, items, seen) ==
  IF items = <<>> THEN <<>>
  ELSE LET owned == {x \in UploadsNamed(Head(items)) :
                       x.channelId = channelId /\ x.authorId = authorId /\ x.id \notin seen}
       IN IF owned = {} THEN KeptAttachments(channelId, authorId, Tail(items), seen)
          ELSE LET x == CHOOSE y \in owned : TRUE
               IN <<Attachment(x.id, x.url)>>
                    \o KeptAttachments(channelId, authorId, Tail(items), seen \cup {x.id})

\* C13 as claimed: a message:send that passes the access and permission
\* checks stores the message with the attachments that resolve to uploads of
\* the channel and the sender, without duplicates, and broadcasts
\* message:new; when the content is empty and no attachment is left, nothing
\* is stored and no message:new is broadcast.  (The lookup of the upload
\* throws.)
C13_SendKeepsOwnedAttachments ==
  [][\A s \in SocketIds, c \in ChannelIds, content \in {"", " ", "hi"}, a \in AttachmentChoices :
       (/\ MessageSend(s, c, FreshMessage, content, a, NULL)
        /\ isChannelAccessible(c, sockets[s].user)
        /\ channels[c].type = "text"
        /\ SEND_MESSAGES \in getPermissions(G, sockets[s].user, c)) =>
         LET kept == KeptAttachments(c, sockets[s].user, a, {})
         IN IF sanitizeText(content) = "" /\ kept = <<>>
            THEN /\ messages' = messages
                 /\ \A i \in 1..Len(emitted') : emitted'[i].event # "message:new"
            ELSE /\ messages' = createMessage(FreshMessage, c, sockets[s].user,
                                              sanitizeText(content), kept, NULL)
                 /\ emitted' = <<Msg(Room("channel", c), "message:new", FreshMessage)>>]_vars

(***************************************************************************)
(* SpecTyping: u2 signals typing on its socket while u1 changes the        *)
(* overrides of txt and times u2 out.                                      *)
(***************************************************************************)
NextTyping ==
  \/ GetGuilds("u1")
  \/ SocketAuth("s2", "u2")
  \/ Connection("s2")
  \/ \E c \in {"txt", "vc1"} : TypingStart("s2", c)
  \/ \E c \in {"txt", "vc1"} : TypingStop("s2", c)
  \/ \E o \in OverrideChoices : PatchChannel("u1", "txt", o)
  \/ \E m \in {0, 1} : PatchTimeout("u1", "u2", m)
  \/ Tick

SpecTyping == Init /\ [][NextTyping]_vars

\* C14 as claimed: typing:start and typing:stop emit something only when the
\* sender has VIEW_CHANNELS and SEND_MESSAGES on the channel, and then it is
\* the event, to channel:<channelId>, without the sender.  (typing:stop
\* does not look at SEND_MESSAGES.)
C14_TypingNeedsSendMessages ==
  [][\A s \in SocketIds, c \in ChannelIds :
       \A event \in {"typing:start", "typing:stop"} :
         ((IF event = "typing:start" THEN TypingStart(s, c) ELSE TypingStop(s, c))
            /\ emitted' # <<>>) =>
           /\ {VIEW_CHANNELS, SEND_MESSAGES} \subseteq getPermissions(G, sockets[s].user, c)
           /\ emitted' = <<Broadcast(s, Room("channel", c), event, <<c, sockets[s].user>>)>>]_vars


(***************************************************************************)
(* SpecRole: roles are created, updated, given icons and deleted through   *)
(* the member endpoints and the admin endpoints, while the operator hands  *)
(* the created roles to u2.  u1 is the first member and holds Admin.       *)
(***************************************************************************)
MaxRoles == 2

NewRoleIds == <<"r1", "r2", "r3", "r4">>

RolesDrawn == Cardinality(drawn \cap {"r1", "r2", "r3", "r4"})

FreshRole == NewRoleIds[RolesDrawn + 1]

ManagerPermChoices == {{MANAGE_ROLES}, {MANAGE_ROLES, MANAGE_SERVER}}

RoleTargets == {G, "r1", "r2"}

NextRole ==
  \/ pending = {} /\ GetGuilds("u2")
  \/ RolesDrawn < MaxRoles /\ pending = {} /\ PostRole("u2", FreshRole, {})
  \/ \E p \in ManagerPermChoices :
       RolesDrawn < MaxRoles /\ pending = {} /\ AdminPostRole(FreshRole, p)
  \/ \E rs \in {{}, {"r2"}} :
       pending = {} /\ rs \subseteq drawn /\ AdminPatchMemberRoles("u2", rs)
  \/ \E r \in {G, "r1"} : pending = {} /\ PatchRole("u2", r, <<>>, <<>>, <<0>>)
  \/ \E r \in {G, "r1"} : pending = {} /\ PostRoleIcon("u2", r)
  \/ \E h \in pending : PostRoleIconHandler(h)
  \/ \E r \in RoleTargets : pending = {} /\ DeleteRole("u2", r)
  \/ pending = {} /\ AdminPatchRole("r1", <<>>, <<{}>>)
  \/ \E r \in RoleTargets : pending = {} /\ AdminDeleteRole(r)

SpecRole == Init /\ [][NextRole]_vars

\* What canManageRole has to find for actor a and role r, read off the tables.
MayManageRole(actorId, roleId) ==
  \/ ADMINISTRATOR \in getPermissions(G, actorId, NULL)
  \/ getMemberTopPosition(G, actorId) > roles[roleId].position
  \/ roleId = G /\ MANAGE_SERVER \in getPermissions(G, actorId, NULL)

\* C15: a role update, icon change or delete through the member endpoints
\* that is allowed (answered 200) is made by an actor who has ADMINISTRATOR,
\* or whose top role position is strictly above the role's position, or,
\* when the role is @everyone, who has MANAGE_SERVER.
C15_RoleManagedOnlyFromAbove ==
  [][/\ \A a \in Users, r \in RoleTargets :
          (PatchRole(a, r, <<>>, <<>>, <<0>>) /\ emitted' = <<Response(a, 200)>>)
            => MayManageRole(a, r)
     /\ \A h \in pending :
          (PostRoleIconHandler(h) /\ emitted' = <<Response(h.user, 200)>>)
            => MayManageRole(h.user, h.roleId)
     /\ \A a \in Users, r \in RoleTargets :
          (DeleteRole(a, r) /\ emitted' = <<Response(a, 200)>>) => MayManageRole(a, r)]_vars

\* u2, who is no administrator, has updated or deleted a role below its own.
C15_Witness ==
  /\ "u2" \in DOMAIN members
  /\ ADMINISTRATOR \notin getPermissions(G, "u2", NULL)
  /\ emitted = <<Response("u2", 200)>>
  /\ \E r \in {"r1", "r2"} : r \in drawn /\ (r \notin DOMAIN roles \/ roles[r].iconUrl # NULL)


\* C16: after every role create, update and delete, through the member
\* endpoints and the admin endpoints, the roles hold the role whose id is the
\* guild id; a request to delete that role, by a member who is not banned or
\* by the operator, is answered 400 and leaves the roles and every member's
\* role list unchanged.
C16_EveryoneRoleStays ==
  [][/\ G \in DOMAIN roles'
     /\ \A a \in Users :
          DeleteRole(a, G) => emitted' = <<Response(a, 400)>> /\ UNCHANGED <<roles, members>>
     /\ AdminDeleteRole(G)
          => emitted' = <<Response(OPERATOR, 400)>> /\ UNCHANGED <<roles, members>>]_vars

\* The operator was refused the deletion of @everyone while other roles
\* exist and u2 holds one of them.
C16_Witness ==
  /\ emitted = <<Response(OPERATOR, 400)>>
  /\ G \in DOMAIN roles /\ "r2" \in DOMAIN roles
  /\ "u2" \in DOMAIN members /\ "r2" \in members["u2"].roleIds


\* C20: once a role other than @everyone is deleted no member holds its id;
\* a role created afterwards, under the same name, gets an id that no role
\* had before, and the creation leaves every member's role list as it was, so
\* no member holds the new id either.
C20_DeletedRoleLeavesMembers ==
  [][/\ \A r \in RoleTargets \ {G} :
          (r \in DOMAIN roles /\ r \notin DOMAIN roles')
            => \A u \in DOMAIN members' : r \notin members'[u].roleIds
     /\ \A r \in DOMAIN roles' \ DOMAIN roles :
          /\ r \notin drawn
          /\ roles'[r].name = "role"
          /\ members' = members
          /\ \A u \in DOMAIN members' : r \notin members'[u].roleIds]_vars

\* r1 was deleted, and a role of the same name has been created since under
\* another id, r2.
C20_Witness ==
  /\ "r1" \in drawn /\ "r1" \notin DOMAIN roles
  /\ "r2" \in DOMAIN roles /\ roles["r2"].name = "role"
  /\ "u2" \in DOMAIN members
  /\ \E a \in Users \cup {OPERATOR} : emitted = <<Response(a, 201)>>


(***************************************************************************)
(* SpecChan: u1, who holds Admin, uploads and posts in txt, and creates,   *)
(* moves, reorders and deletes channels.                                   *)
(***************************************************************************)
MaxChannels == 1

NewChannelIds == <<"c5", "c6", "c7">>

ChannelsDrawn == Cardinality(drawn \cap {"c5", "c6", "c7"})

FreshChannel == NewChannelIds[ChannelsDrawn + 1]

OrderItem(id, position, categoryId) == [id |-> id, position |-> position, categoryId |-> categoryId]

NextChan ==
  \/ GetGuilds("u1")
  \/ pending = {} /\ PostUpload("u1", "txt")
  \/ \E h \in pending :
       Cardinality(drawn \cap {"f1", "f2", "f3"}) < MaxUploads /\ PostUploadHandler(h, FreshUpload)
  \/ Cardinality(drawn \cap {"m1", "m2", "m3", "m4"}) < MaxMessages /\ pending = {}
       /\ PostMessage("u1", "txt", FreshMessage, "hi", <<>>)
  \/ \E type \in {"text", "category"}, categoryId \in {"", "cat"} :
       ChannelsDrawn < MaxChannels /\ pending = {} /\ PostChannel("u1", FreshChannel, type, categoryId)
  \/ \E categoryId \in {UNDEFINED, "", "cat"} :
       pending = {} /\ PatchChannelOrder("u1", <<OrderItem("vc1", 1, categoryId)>>)
  \/ \E categoryId \in {"", "cat"} : pending = {} /\ PatchChannelCategory("u1", "vc2", categoryId)
  \/ \E c \in {"cat", "txt", "c9"} : pending = {} /\ DeleteChannel("u1", c)

SpecChan == Init /\ [][NextChan]_vars

\* C17 as claimed: the categoryId of every channel is null or the id of a
\* category channel that exists, and every category has categoryId null.
C17_CategoryIdNamesCategory ==
  \A c \in DOMAIN channels :
    /\ channels[c].categoryId # NULL
         => /\ channels[c].categoryId \in DOMAIN channels
            /\ channels[channels[c].categoryId].type = "category"
    /\ channels[c].type = "category" => channels[c].categoryId = NULL


(***************************************************************************)
(* SpecDel: u1, who holds Admin, uploads and posts in txt, deletes         *)
(* messages, and deletes channels.                                         *)
(***************************************************************************)
NextDel ==
  \/ GetGuilds("u1")
  \/ pending = {} /\ PostUpload("u1", "txt")
  \/ \E h \in pending :
       Cardinality(drawn \cap {"f1", "f2", "f3"}) < MaxUploads /\ PostUploadHandler(h, FreshUpload)
  \/ \E a \in {<<>>, <<Attachment("f1", FileUrl("f1"))>>} :
       Cardinality(drawn \cap {"m1", "m2", "m3", "m4"}) < MaxMessages /\ pending = {}
         /\ PostMessage("u1", "txt", FreshMessage, "hi", a)
  \/ \E c \in {"txt", "vc1"} : pending = {} /\ DeleteMessage("u1", c, "m1")
  \/ \E c \in {"cat", "txt", "c9"} : pending = {} /\ DeleteChannel("u1", c)

SpecDel == Init /\ [][NextDel]_vars

\* C18: after DELETE /api/channels/c is answered 200 there is no channel c,
\* no message and no upload row of channel c, the files of the removed upload
\* rows are gone from the uploads directory, and channel:delete with the
\* channel id went to guild:<g>.
C18_DeleteChannelCascades ==
  [][\A a \in Users, c \in {"cat", "txt", "c9"} :
       (DeleteChannel(a, c) /\ emitted' # <<>> /\ emitted'[Len(emitted')] = Response(a, 200))
         => /\ c \notin DOMAIN channels'
            /\ \A m \in messages' : m.channelId # c
            /\ \A x \in uploads' : x.channelId # c
            /\ \A x \in uploads : x.channelId = c => x.url \notin files'
            /\ emitted' = <<Msg(Room("guild", G), "channel:delete", c), Response(a, 200)>>]_vars

\* txt was deleted after a message was posted and a file uploaded in it.
C18_Witness ==
  /\ "txt" \notin DOMAIN channels
  /\ "m1" \in drawn /\ "f1" \in drawn /\ FileUrl("f1") \notin files
  /\ emitted = <<Msg(Room("guild", G), "channel:delete", "txt"), Response("u1", 200)>>


(***************************************************************************)
(* SpecReply: u1 posts in txt, u2 replies over its socket, messages and    *)
(* the channel are deleted, and members leave.                             *)
(***************************************************************************)
NextReply ==
  \/ \E u \in Users : GetGuilds(u)
  \/ SocketAuth("s2", "u2")
  \/ Connection("s2")
  \/ Cardinality(drawn \cap {"m1", "m2", "m3", "m4"}) < MaxMessages
       /\ PostMessage("u1", "txt", FreshMessage, "hi", <<>>)
  \/ \E replyToId \in {NULL, "m1", "m2"} :
       Cardinality(drawn \cap {"m1", "m2", "m3", "m4"}) < MaxMessages
         /\ MessageSend("s2", "txt", FreshMessage, "hi", <<>>, replyToId)
  \/ \E m \in {"m1", "m2"} : DeleteMessage("u1", "txt", m)
  \/ DeleteChannel("u1", "txt")
  \/ \E u \in Users : PostLeave(u)

SpecReply == Init /\ [][NextReply]_vars

\* C19 as claimed: no stored message has a replyToId that names a message
\* which does not exist, whatever was deleted or purged.
C19_RepliesNameMessages ==
  \A m \in messages : m.replyToId # NULL => \E t \in messages : t.id = m.replyToId


(***************************************************************************)
(* SpecOrder: u1, who holds Admin, and u2, who does not, send batches of   *)
(* up to MaxBatch items to the reorder route.                              *)
(***************************************************************************)
MaxBatch == 2

OrderItems ==
  {OrderItem("txt", 2, ""), OrderItem("txt", 1, UNDEFINED), OrderItem("vc1", 1, "cat"),
   OrderItem("vc1", 2, UNDEFINED), OrderItem("c9", 1, "cat")}

OrderBatches == UNION {[1..n -> OrderItems] : n \in 0..MaxBatch}

NextOrder ==
  \/ \E u \in Users : GetGuilds(u)
  \/ \E a \in Users, updates \in OrderBatches : PatchChannelOrder(a, updates)

SpecOrder == Init /\ [][NextOrder]_vars

\* C21: for every channel table the routes produce and every batch, the
\* table the reorder route leaves after the batch is left exactly as it is
\* (ids, positions, categoryIds) by the same batch applied again, and the
\* second request is filtered to nothing only if the first one was.
C21_ReorderIdempotent ==
  \A updates \in OrderBatches :
    LET filtered == filterOrderUpdates(channels, updates)
        once == updateChannelPositions(channels, filtered)
        again == updateChannelPositions(once, filterOrderUpdates(once, updates))
    IN /\ again = once
       /\ (filtered = <<>>) = (filterOrderUpdates(once, updates) = <<>>)

\* A batch of two items, one of them without categoryId, has moved txt out
\* of its category and vc1 into it.
C21_Witness ==
  /\ Len(emitted) = 3 /\ emitted[3] = Response("u1", 200)
  /\ channels["txt"].categoryId = NULL /\ channels["txt"].position = 2
  /\ channels["vc1"].categoryId = "cat"


(***************************************************************************)
(* SpecAudit: u1, who holds Admin, and the operator change the settings    *)
(* and moderate u2; the audit log holds at most MaxAudit rows.             *)
(***************************************************************************)
MaxAudit == 3

\* the auditMaxEntries of a settings body: absent, or an integer
AuditMaxChoices == {<<>>, <<0>>, <<1>>, <<2>>}

AuditRoom == Len(audit) < MaxAudit

NextAudit ==
  \/ \E u \in Users : GetGuilds(u)
  \/ \E a \in Users, v \in AuditMaxChoices : AuditRoom /\ PatchSettings(a, v, <<>>)
  \/ \E v \in AuditMaxChoices : AdminPatchSettings(v, <<>>)
  \/ AuditRoom /\ PatchTimeout("u1", "u2", 1)
  \/ AuditRoom /\ PostKick("u1", "u2")
  \/ AuditRoom /\ PostBan("u1", "u2")
  \/ AdminKick("u2")
  \/ AdminBan("u2")
  \/ AdminUnban("u2")
  \/ AdminPatchMemberRoles("u2", {})

SpecAudit == Init /\ [][NextAudit]_vars

\* C22 as claimed: whenever a step changes the audit log (addAudit has
\* inserted a row), the log afterwards holds at most settings.auditMaxEntries
\* rows, whatever integer the settings endpoints stored there.
\* (Violated: with auditMaxEntries 0 addAudit never trims.)
C22_AuditCountWithinMax ==
  [][audit' # audit => Len(audit') <= settings'.auditMaxEntries]_vars

\* The step appends an audit row with the tag, under the settings in force
\* after the step.
Appended(action) == audit' = addAuditTo(audit, settings', action)

Succeeds(callerId) == emitted'[Len(emitted')] = Response(callerId, 200)

\* C23 as claimed: every kick, ban, unban, timeout, member role change and
\* settings change that succeeds, through the member endpoints or through
\* /api/admin/*, appends an audit row with the tag of the action.
\* (Violated: no /api/admin/* route calls addAudit.)
C23_EveryActionAudited ==
  [][/\ \A a \in Users, t \in Users :
          /\ (PostKick(a, t) /\ Succeeds(a)) => Appended("member.kick")
          /\ (PostBan(a, t) /\ Succeeds(a)) => Appended("member.ban")
          /\ (PatchTimeout(a, t, 1) /\ Succeeds(a)) => Appended("member.timeout")
     /\ \A a \in Users, v \in AuditMaxChoices :
          (PatchSettings(a, v, <<>>) /\ Succeeds(a)) => Appended("server.settings")
     /\ \A t \in Users :
          /\ AdminKick(t) => Appended("member.kick")
          /\ AdminBan(t) => Appended("member.ban")
          /\ (AdminUnban(t) /\ Succeeds(OPERATOR)) => Appended("member.unban")
          /\ AdminPatchMemberRoles(t, {}) => Appended("member.roles")
     /\ \A v \in AuditMaxChoices : AdminPatchSettings(v, <<>>) => Appended("server.settings")]_vars


(***************************************************************************)
(* identity.js: resolveUserFromToken and its token cache.                  *)
(***************************************************************************)
\* The user the authority holds for a token, NULL for a token it does not
\* know.
Owner(token) == CASE token = "tok1" -> "u1" [] token = "tok2" -> "u2" [] OTHER -> NULL

\* What verifyWithMainBackend can return for the token: the user, or null
\* (the response is not ok, or carries no user).
VerifyAnswers(token) == {Owner(token), NULL}

Resolved(token, user) == Msg(Room("caller", token), "resolved", user)

\* resolveUserFromToken's read of the cache: the user of an entry that has
\* not reached its expiry
cachedUser_atExpiry(token) ==
  IF token \in DOMAIN tokenCache /\ tokenCache[token].expiresAt >= now
  THEN tokenCache[token].user
  ELSE NULL

cachedUser(token) ==
  IF token \in DOMAIN tokenCache /\ tokenCache[token].expiresAt > now
  THEN tokenCache[token].user
  ELSE NULL

SuspendedVerify(token) == SuspendedRequest("verify", NULL, NULL) @@ [token |-> token]

\* resolveUserFromToken(token) up to its return or its await of the
\* authority; "" is the missing token.
ResolveUserFromToken(token) ==
  /\ IF token = "" THEN emitted' = <<Resolved(token, NULL)>> /\ UNCHANGED pending
     ELSE IF cachedUser(token) # NULL
       THEN emitted' = <<Resolved(token, cachedUser(token))>> /\ UNCHANGED pending
     ELSE /\ CanSuspend
          /\ pending' = pending \cup {SuspendedVerify(token)}
          /\ emitted' = <<Msg(Room("authority", token), "verify", token)>>
  /\ UNCHANGED <<storeVars, httpVars, gatewayVars, voiceParticipants, userVoiceChannel,
                 speakingUsers, voiceUsersCache, sfuRooms, media, socketRateLimits>>

\* resolveUserFromToken after the await: the authority has answered user.
VerifyDone(h, user) ==
  /\ h \in pending /\ h.op = "verify"
  /\ pending' = pending \ {h}
  /\ emitted' = <<Resolved(h.token, user)>>
  /\ tokenCache' =
       IF user = NULL THEN tokenCache
       ELSE [t \in DOMAIN tokenCache \cup {h.token} |->
               IF t = h.token THEN [user |-> user, expiresAt |-> now + CACHE_TTL]
               ELSE tokenCache[t]]
  /\ UNCHANGED <<storeVars, rateBuckets, ADMIN_KEY, gatewayVars, voiceParticipants, userVoiceChannel,
                 speakingUsers, voiceUsersCache, sfuRooms, media, socketRateLimits>>

(***************************************************************************)
(* SpecToken: tokens are resolved while seconds and a minute pass; in each *)
(* minute the model follows the first MaxSeconds seconds.                  *)
(***************************************************************************)
MaxSeconds == 6

TokenChoices == {"", "tok1", "tok2", "bad"}

NextToken ==
  \/ now % 60 < MaxSeconds /\ Elapse(1)
  \/ Tick
  \/ \E token \in TokenChoices : ResolveUserFromToken(token)
  \/ \E h \in pending : \E user \in VerifyAnswers(h.token) : VerifyDone(h, user)

SpecToken == Init /\ [][NextToken]_vars

\* C24: every cache entry holds the user the authority gave for that very
\* token, stored at most CACHE_TTL (5 s) ahead of the clock by a verification
\* that succeeded; a call answers a user without contacting the authority
\* only from an entry of its token that has not reached its expiry; a call
\* that finds an entry at or past its expiry, swept or not, contacts the
\* authority; and a verification answered null leaves the cache as it was.
C24_CacheServesOnlyFreshEntries ==
  [][/\ \A t \in DOMAIN tokenCache' :
          /\ tokenCache'[t].user = Owner(t) /\ tokenCache'[t].user # NULL
          /\ tokenCache'[t].expiresAt <= now' + CACHE_TTL
     /\ \A t \in TokenChoices :
          /\ (pending' = pending /\ now' = now /\ emitted' = <<Resolved(t, Owner(t))>>
                /\ Owner(t) # NULL)
               => /\ t \in DOMAIN tokenCache
                  /\ now < tokenCache[t].expiresAt
                  /\ now - (tokenCache[t].expiresAt - CACHE_TTL) < CACHE_TTL
          /\ (ResolveUserFromToken(t) /\ t \in DOMAIN tokenCache /\ tokenCache[t].expiresAt <= now)
               => emitted' = <<Msg(Room("authority", t), "verify", t)>>
          /\ (pending' # pending /\ emitted' = <<Resolved(t, NULL)>>) => tokenCache' = tokenCache
          /\ \A u \in Users : emitted' = <<Resolved(t, u)>> => u = Owner(t)]_vars

\* tok1 has just been answered from the cache, a second or more after its
\* verification, while the entry of tok2 is past its expiry and not swept.
C24_Witness ==
  /\ emitted = <<Resolved("tok1", "u1")>>
  /\ pending = {}
  /\ "tok1" \in DOMAIN tokenCache /\ now < tokenCache["tok1"].expiresAt
  /\ tokenCache["tok1"].expiresAt < now + CACHE_TTL
  /\ "tok2" \in DOMAIN tokenCache /\ tokenCache["tok2"].expiresAt <= now


(***************************************************************************)
(* SpecUpload: u1 and u2, members with ATTACH_FILES, upload to txt, with   *)
(* and without a file, while a minute passes.  MaxFiles requests carry a   *)
(* file, and u2 sends MaxOther requests in a window.                       *)
(***************************************************************************)
MaxFiles == 2
MaxOther == 2

FileNames == {"a.png", "evil.bat", "evil.BAT"}

Uploaded(userId) ==
  IF UploadKey(userId) \in DOMAIN rateBuckets THEN rateBuckets[UploadKey(userId)].count ELSE 0

NextUpload ==
  \/ \E u \in Users : pending = {} /\ u \notin DOMAIN members /\ GetGuilds(u)
  \/ Tick
  \/ pending = {} /\ PostUpload("u1", "txt")
  \/ pending = {} /\ Uploaded("u2") < MaxOther /\ PostUpload("u2", "txt")
  \/ \E h \in pending : PostUploadFile(h, FreshUpload, NULL)
  \/ \E h \in pending, name \in FileNames :
       Cardinality(drawn \cap {"f1", "f2", "f3"}) < MaxFiles /\ PostUploadFile(h, FreshUpload, name)

SpecUpload == Init /\ [][NextUpload]_vars

\* The upload handler answers userId in this step.
UploadAnswered(userId) ==
  \E h \in pending : h.op = "upload" /\ h.user = userId /\ h \notin pending'

WindowOpen(userId) ==
  UploadKey(userId) \in DOMAIN rateBuckets /\ now < rateBuckets[UploadKey(userId)].resetAt

\* C25: an upload request of a user that passes the limiter either opens a
\* window of 60 seconds, no window of the user being open, or is one more
\* request of the open window, which never counts more than 30; a request
\* made when the open window has counted 30 is answered 429, creates no
\* upload row and leaves the window as it is; and a request of one user
\* leaves the windows of the other users as they are.
C25_UploadWindowPassesThirty ==
  [][\A u \in Users :
       UploadAnswered(u) =>
         LET key == UploadKey(u)
             status == emitted'[1].arg
         IN /\ \A k \in DOMAIN rateBuckets \ {key} :
                 k \in DOMAIN rateBuckets' /\ rateBuckets'[k] = rateBuckets[k]
            /\ status \notin {403, 429} =>
                 /\ rateBuckets'[key].count <= UPLOAD_LIMIT
                 /\ IF WindowOpen(u)
                    THEN rateBuckets'[key] = [rateBuckets[key] EXCEPT !.count = @ + 1]
                    ELSE rateBuckets'[key] = [count |-> 1, resetAt |-> now + UPLOAD_WINDOW]
            /\ (status # 403 /\ WindowOpen(u) /\ rateBuckets[key].count >= UPLOAD_LIMIT) =>
                 /\ status = 429
                 /\ uploads' = uploads
                 /\ rateBuckets' = rateBuckets
            /\ status = 429 => (WindowOpen(u) /\ rateBuckets[key].count = UPLOAD_LIMIT)]_vars

\* u1's request has been answered 429 in a window that counted 30, of which
\* one created an upload row, while u2's window has counted fewer.
C25_Witness ==
  /\ emitted = <<Response("u1", 429)>>
  /\ WindowOpen("u1") /\ Uploaded("u1") = UPLOAD_LIMIT
  /\ WindowOpen("u2") /\ Uploaded("u2") = 1
  /\ \E x \in uploads : x.authorId = "u1"


\* C29 as claimed: an upload whose file name has a blocklisted extension, in
\* either case, is answered 400, its file is not on disk afterwards and no
\* upload row is created.
\* (Violated: the permission check and the limiter answer 403 and 429
\* before the blocklist is read, and leave the file the parser has written.)
C29_BlockedUploadLeavesNoFile ==
  [][\A h \in pending, name \in {"evil.bat", "evil.BAT"} :
       PostUploadFile(h, FreshUpload, name) =>
         /\ emitted' = <<Response(h.user, 400)>>
         /\ FileUrl(FreshUpload) \notin files'
         /\ uploads' = uploads]_vars


(***************************************************************************)
(* index.js: requireAdmin, the gate of /api/admin/*.                       *)
(***************************************************************************)
\* normalizeIp on the remote addresses of the model; "" is the missing
\* address.
normalizeIp(address) ==
  CASE address = "" -> "unknown"
    [] address = "::1" -> "127.0.0.1"
    [] address = "::ffff:127.0.0.1" -> "127.0.0.1"
    [] address = "::ffff:10.0.0.5" -> "10.0.0.5"
    [] OTHER -> address

isLocalRequest(address) == normalizeIp(address) = "127.0.0.1"

\* requireAdmin calls next(); key is the x-remus-admin-key header, NULL for
\* a request without it.
requireAdmin_anySource(address, key) ==
  /\ ADMIN_KEY # ""
  /\ key # NULL /\ key = ADMIN_KEY

requireAdmin(address, key) ==
  /\ ADMIN_KEY # ""
  /\ isLocalRequest(address)
  /\ key # NULL /\ key = ADMIN_KEY

\* A request to a route of /api/admin/* whose handler is the action handler.
AdminRoute(address, key, handler) ==
  IF requireAdmin(address, key) THEN handler ELSE Reply(OPERATOR, 403)

(***************************************************************************)
(* SpecAdmin: the node runs with or without an admin key, members arrive,  *)
(* and requests to /api/admin/* come from every address with every key.    *)
(***************************************************************************)
AdminKeys == {"", "key"}
Addresses == {"", "127.0.0.1", "::1", "::ffff:127.0.0.1", "10.0.0.5", "::ffff:10.0.0.5"}
KeyHeaders == {NULL, "", "key", "other"}

InitAdmin == InitStore /\ InitGateway /\ InitHttp /\ InitGuilds(<<>>) /\ ADMIN_KEY \in AdminKeys

\* The requests of the model to /api/admin/*.
AdminRequest(address, key) ==
  \/ AdminRoute(address, key, AdminKick("u2"))
  \/ AdminRoute(address, key, AdminBan("u2"))
  \/ AdminRoute(address, key, AdminUnban("u2"))
  \/ \E v \in {<<>>, <<0>>} : AdminRoute(address, key, AdminPatchSettings(v, <<>>))
  \/ AdminRoute(address, key, AdminPatchMemberRoles("u2", {}))

NextAdmin ==
  \/ \E u \in Users : GetGuilds(u)
  \/ PostMessage("u2", "txt", "m1", "hi", <<>>)
  \/ \E address \in Addresses, key \in KeyHeaders : AdminRequest(address, key)

SpecAdmin == InitAdmin /\ [][NextAdmin]_vars

\* The addresses of the loopback interface among those of the model.
Loopback == {"127.0.0.1", "::1", "::ffff:127.0.0.1"}

\* C26: a request to /api/admin/* that is not made from a loopback address
\* with the X-Remus-Admin-Key header equal to a configured, non-empty admin
\* key is answered 403 and changes nothing in the store, the gateway or the
\* voice rooms; so with no key configured every admin request is answered
\* 403.
C26_AdminNeedsKeyAndLoopback ==
  [][\A address \in Addresses, key \in KeyHeaders :
       (AdminRequest(address, key)
          /\ ~(ADMIN_KEY # "" /\ address \in Loopback /\ key = ADMIN_KEY))
         => /\ emitted' = <<Response(OPERATOR, 403)>>
            /\ UNCHANGED <<storeVars, gatewayVars, voiceVars, httpVars>>]_vars

\* The node has an admin key, u2 is a member with a message, and an admin
\* request has just been refused.
C26_Witness ==
  /\ ADMIN_KEY = "key"
  /\ emitted = <<Response(OPERATOR, 403)>>
  /\ "u2" \in DOMAIN members /\ \E m \in messages : m.authorId = "u2"


(***************************************************************************)
(* SpecGuild: the node is started for the first time, with or without a    *)
(* legacy export; members arrive, leave and are removed.                   *)
(***************************************************************************)
\* The guilds arrays of the legacy exports: none, the node guild, the node
\* guild and a second guild, an entry without id.
LegacyExports ==
  {<<>>, <<[id |-> G]>>, <<[id |-> G], [id |-> "g2"]>>, <<[id |-> NULL]>>}

InitGuild ==
  /\ InitStore /\ InitGateway /\ InitHttp /\ ADMIN_KEY = "key"
  /\ \E legacyGuilds \in LegacyExports : InitGuilds(legacyGuilds)

NextGuild ==
  \/ \E u \in Users : GetGuilds(u)
  \/ \E u \in Users : PostGuilds(u)
  \/ \E t \in Tokens : SocketAuth(t[1], t[2])
  \/ \E s \in SocketIds : Connection(s)
  \/ \E u \in Users : PostJoin(u)
  \/ \E u \in Users : PostLeave(u)
  \/ AdminKick("u2")
  \/ AdminBan("u2")
  \/ AdminUnban("u2")

SpecGuild == InitGuild /\ [][NextGuild]_vars

\* C27 as claimed: after bring-up the guilds table holds exactly one guild
\* in every state, and POST /api/guilds is answered 405 and changes nothing.
\* (Violated: the import of a legacy export inserts every guild of the
\* export.)
C27_ExactlyOneGuild ==
  /\ [](Cardinality(guilds) = 1)
  /\ [][\A u \in Users :
          PostGuilds(u) => (emitted' = <<Response(u, 405)>>
                             /\ UNCHANGED <<storeVars, gatewayVars, voiceVars, httpVars>>)]_vars


(***************************************************************************)
(* SpecFail: u2 connects with s2, joins voice channels and negotiates;     *)
(* every call of the media adapter resolves or is rejected.                *)
(***************************************************************************)
NextFail ==
  \/ SocketAuth("s2", "u2")
  \/ Connection("s2")
  \/ ClientDisconnect("s2")
  \/ \E c \in {"vc1", "vc2"} : JoinBudget("s2") /\ VoiceJoin("s2", c)
  \/ VoiceLeave("s2")
  \/ CanSuspend /\ CreateTransport("s2", NULL)
  \/ \E h \in pending, ok \in BOOLEAN : CanAllocate /\ CreateTransportDone(h, FreshMedia, ok)
  \/ \E t \in MediaOfType("transport") : CanSuspend /\ ConnectTransport("s2", NULL, t)
  \/ \E h \in pending, ok \in BOOLEAN : ConnectTransportDone(h, ok)
  \/ \E t \in MediaOfType("transport") : CanSuspend /\ Produce("s2", NULL, t, "audio", "")
  \/ \E h \in pending, ok \in BOOLEAN : CanAllocate /\ ProduceDone(h, FreshMedia, ok)
  \/ \E t \in MediaOfType("transport"), p \in MediaOfType("producer") :
       CanSuspend /\ Consume("s2", NULL, t, p)
  \/ \E h \in pending, ok \in BOOLEAN : CanAllocate /\ ConsumeDone(h, FreshMedia, ok)
  \/ \E c \in MediaOfType("consumer") : CanSuspend /\ ResumeConsumer("s2", NULL, c)
  \/ \E h \in pending, ok \in BOOLEAN : ResumeConsumerDone(h, ok)

SpecFail == Init /\ [][NextFail]_vars

\* The media adapter rejects the call handler h waits for.
Rejected(h) ==
  \/ CreateTransportDone(h, FreshMedia, FALSE)
  \/ ConnectTransportDone(h, FALSE)
  \/ ProduceDone(h, FreshMedia, FALSE)
  \/ ConsumeDone(h, FreshMedia, FALSE)
  \/ ResumeConsumerDone(h, FALSE)

AckEvent(op) ==
  CASE op = "createTransport" -> "voice:createTransport"
    [] op = "connectTransport" -> "voice:connectTransport"
    [] op = "produce" -> "voice:produce"
    [] op = "consume" -> "voice:consume"
    [] OTHER -> "voice:resumeConsumer"

\* What the rooms hold for the socket: the media objects in its peer's maps.
PeerMedia(socketId) ==
  UNION {sfuRooms[c].peers[socketId].transports \cup sfuRooms[c].peers[socketId].producers
           \cup sfuRooms[c].peers[socketId].consumers :
         c \in {r \in DOMAIN sfuRooms : socketId \in DOMAIN sfuRooms[r].peers}}

\* C28: when the media adapter rejects the call of a transport, connect,
\* produce, consume or resume handler, the handler acknowledges an error and
\* leaves the rooms, their peers and maps, the media objects and the voice
\* indices as they are, so the peer stays in its room; and a voice:leave or a
\* disconnect of the socket leaves no peer of the socket in the room it was
\* in and none of the peer's producers in that room's map, and closes every
\* media object the peer held.
C28_RejectedCallChangesNothing ==
  [][/\ \A h \in pending :
          Rejected(h) =>
            /\ emitted' = <<Msg(Room("ack", h.socket), AckEvent(h.op), "error")>>
            /\ UNCHANGED <<sfuRooms, media, voiceParticipants, userVoiceChannel, speakingUsers, voiceUsersCache,
                           gatewayVars>>
     /\ \A s \in SocketIds :
          (VoiceLeave(s) \/ (Listening(s) /\ ClientDisconnect(s))) =>
            LET c == sockets[s].voiceChannelId
            IN (c # NULL /\ s \in DOMAIN sfuRooms[c].peers) =>
                 /\ s \notin DOMAIN sfuRooms'[c].peers
                 /\ \A p \in sfuRooms[c].peers[s].producers : p \notin DOMAIN sfuRooms'[c].producers
                 /\ \A m \in PeerMedia(s) : media'[m].closed]_vars

\* A produce call of s2 has just been rejected: s2 is still a peer of vc1,
\* with its transport and no producer.
C28_Witness ==
  /\ emitted = <<Msg(Room("ack", "s2"), "voice:produce", "error")>>
  /\ "s2" \in DOMAIN sfuRooms["vc1"].peers
  /\ sfuRooms["vc1"].peers["s2"].transports # {}
  /\ sfuRooms["vc1"].peers["s2"].producers = {}
  /\ pending = {}

(***************************************************************************)
(* SpecVoice: u1 connects with s1 and u2 with s2; the sockets join and     *)
(* switch voice channels, leave and disconnect, s2 holds a transport, and  *)
(* u2 is kicked and banned by u1 and by the operator and joins the guild   *)
(* again.                                                                  *)
(***************************************************************************)
VoiceChannels == {"vc1", "vc2"}

NextVoice ==
  \/ SocketAuth("s1", "u1")
  \/ SocketAuth("s2", "u2")
  \/ \E s \in SocketIds : Connection(s)
  \/ ClientDisconnect("s2")
  \/ \E c \in VoiceChannels : RejoinBudget("s1") /\ VoiceJoin("s1", c)
  \/ RejoinBudget("s2") /\ VoiceJoin("s2", "vc1")
  \/ \E s \in SocketIds : VoiceLeave(s)
  \/ media = NoMedia /\ pending = {} /\ CreateTransport("s2", NULL)
  \/ \E h \in pending : CanAllocate /\ CreateTransportDone(h, FreshMedia, TRUE)
  \/ "u2" \notin DOMAIN members /\ GetGuilds("u2")
  \/ PostKick("u1", "u2")
  \/ PostBan("u1", "u2")
  \/ AdminKick("u2")
  \/ AdminBan("u2")

SpecVoice == Init /\ [][NextVoice]_vars

\* The voice channels that each index names for session s.
InParticipants(s) == {c \in DOMAIN voiceParticipants : s \in voiceParticipants[c]}
InUserVoiceChannel(s) == {c \in ChannelIds : userVoiceChannel[s] = c}
InRooms(s) == {c \in DOMAIN sfuRooms : s \in DOMAIN sfuRooms[c].peers}
InSocketData(s) == {c \in ChannelIds : sockets[s].voiceChannelId = c}

\* C30: between handlers the four voice indices agree: a session is in
\* voiceParticipants[c] iff userVoiceChannel maps it to c iff the room of c
\* has a peer record for it iff the socket's voiceChannelId is c; so a
\* session is a participant of at most one voice channel, and a session
\* whose socket is not connected is in none.
C30_VoiceIndicesAgree ==
  \A s \in SocketIds :
    /\ InParticipants(s) = InUserVoiceChannel(s)
    /\ InUserVoiceChannel(s) = InRooms(s)
    /\ InRooms(s) = InSocketData(s)
    /\ Cardinality(InParticipants(s)) <= 1
    /\ sockets[s].state # "open" => InParticipants(s) = {}

\* u2 has just been kicked out of vc1 while s1 of u1, which switched from
\* vc1 to vc2 before, stays in vc2.
C30_Witness ==
  /\ \E i \in 1..Len(emitted) :
       emitted[i].to = Room("socket", "s2") /\ emitted[i].event = "guild:kicked"
  /\ \E i \in 1..Len(emitted) :
       emitted[i].to = Room("voice", "vc1") /\ emitted[i].event = "voice:presence"
  /\ InParticipants("s1") = {"vc2"}
  /\ InParticipants("s2") = {}
  /\ socketRateLimits["u1"].count = 2


(***************************************************************************)
(* Requests that complete after their socket left the room.                *)
(***************************************************************************)
\* The media objects that some peer of some room holds.
HeldMedia ==
  UNION {sfuRooms[x[1]].peers[x[2]].transports \cup sfuRooms[x[1]].peers[x[2]].producers
           \cup sfuRooms[x[1]].peers[x[2]].consumers :
         x \in {y \in (DOMAIN sfuRooms) \X SocketIds : y[2] \in DOMAIN sfuRooms[y[1]].peers}}

\* Every entry of a room's producer map names a peer of the room.
ProducersHavePeers ==
  \A c \in DOMAIN sfuRooms :
    \A p \in DOMAIN sfuRooms[c].producers :
      sfuRooms[c].producers[p].peerId \in DOMAIN sfuRooms[c].peers

\* C31: when a transport, produce or consume request completes after its
\* socket left the voice channel or disconnected, the media object it
\* created is closed and held by no peer, and in every state each entry of a
\* room's producer map names a peer of that room.
C31_LateCompletionLeavesNothing ==
  /\ []ProducersHavePeers
  /\ [][\A h \in pending :
          (h.detached /\ h \notin pending') =>
            \A m \in DOMAIN media' \ DOMAIN media :
              media'[m].closed /\ m \notin HeldMedia']_vars

(***************************************************************************)
(* SpecSilence: u2 connects with s2, joins vc1, produces audio and video,  *)
(* closes producers, leaves and disconnects, while u1 and the operator     *)
(* mute and unmute u2.                                                     *)
(***************************************************************************)
NextSilence ==
  \/ GetGuilds("u1")
  \/ SocketAuth("s2", "u2")
  \/ Connection("s2")
  \/ RejoinBudget("s2") /\ VoiceJoin("s2", "vc1")
  \/ TransportsOf("s2") = {} /\ CanSuspend /\ CreateTransport("s2", NULL)
  \/ \E h \in pending : CanAllocate /\ CreateTransportDone(h, FreshMedia, TRUE)
  \/ \E ka \in ProduceArgs, t \in TransportsOf("s2") :
       CanSuspend /\ Produce("s2", NULL, t, ka[1], ka[2])
  \/ \E h \in pending : CanAllocate /\ ProduceDone(h, FreshMedia, TRUE)
  \/ \E m \in BOOLEAN : PatchVoice("u1", "u2", m)
  \/ \E m \in BOOLEAN : AdminPatchVoice("u2", m)
  \/ \E p \in MediaOfType("producer") : CloseProducer("s2", NULL, p)
  \/ VoiceLeave("s2")
  \/ ClientDisconnect("s2")

SpecSilence == Init /\ [][NextSilence]_vars

\* C32: in every state, no room's producer map holds an open producer of kind
\* audio that belongs to a member whose voiceMuted flag is set.
C32_MutedHoldsNoOpenAudio ==
  \A c \in DOMAIN sfuRooms :
    \A p \in DOMAIN sfuRooms[c].producers :
      LET userId == sfuRooms[c].producers[p].userId
      IN (userId \in DOMAIN members /\ members[userId].voiceMuted /\ media[p].kind = "audio")
           => media[p].closed

\* The producers that the peers of the room of channelId hold.
PeerProducers(channelId) ==
  UNION {sfuRooms[channelId].peers[s].producers : s \in DOMAIN sfuRooms[channelId].peers}

\* C33: in every state and in every room, the room's producer map and the
\* producer maps of the room's peers hold the same producer ids, and each
\* entry of the room's map names the peer that holds the producer.
C33_RoomAndPeerProducersAgree ==
  \A c \in DOMAIN sfuRooms :
    /\ DOMAIN sfuRooms[c].producers = PeerProducers(c)
    /\ \A p \in DOMAIN sfuRooms[c].producers :
         LET s == sfuRooms[c].producers[p].peerId
         IN s \in DOMAIN sfuRooms[c].peers /\ p \in sfuRooms[c].peers[s].producers

(***************************************************************************)
(* SpecPromote: the operator creates roles with MANAGE_ROLES and gives     *)
(* them to u2; u2 creates roles, changes roles and sets members' roles.    *)
(***************************************************************************)
PromoteTargets == {G, ADMIN_ROLE, "r1"}

MemberRoleChoices == {{}, {ADMIN_ROLE}, {"r1"}}

\* The member-facing role requests of actorId.
RoleRequest(actorId) ==
  \/ RolesDrawn < MaxRoles /\ PostRole(actorId, FreshRole, {ADMINISTRATOR})
  \/ \E r \in PromoteTargets : PatchRole(actorId, r, <<>>, <<{ADMINISTRATOR}>>, <<>>)
  \/ \E t \in Users, rs \in MemberRoleChoices : PatchMemberRoles(actorId, t, rs)

NextPromote ==
  \/ \E u \in Users : u \notin DOMAIN members /\ GetGuilds(u)
  \/ RolesDrawn < MaxRoles /\ AdminPostRole(FreshRole, {MANAGE_ROLES})
  \/ \E rs \in {{}, {"r1"}} : rs \subseteq drawn /\ AdminPatchMemberRoles("u2", rs)
  \/ RoleRequest("u2")

SpecPromote == Init /\ [][NextPromote]_vars

\* The members whose guild-level permissions hold ADMINISTRATOR.
Administrators == {u \in DOMAIN members : hasAdmin(G, u)}

\* C34: a request to the member-facing role endpoints by an actor whose
\* guild-level permissions do not hold ADMINISTRATOR gives the ADMINISTRATOR
\* bit to no member that did not hold it before.
C34_NoAdminFromBelow ==
  [][\A a \in Users :
       (~hasAdmin(G, a) /\ RoleRequest(a)) => Administrators' \subseteq Administrators]_vars

(***************************************************************************)
(* SpecDeliver: u2 connects with s2 and joins the room of txt, u1 connects *)
(* with s1; u1 changes the overrides of txt, posts messages and types.     *)
(***************************************************************************)
\* Bodies of PATCH /api/channels/txt.
DeliverOverrideChoices ==
  { NullOverrides,
    [roles |-> EmptyMap, members |-> ("u2" :> Ov({}, {VIEW_CHANNELS}))] }

NextDeliver ==
  \/ \E u \in Users : u \notin DOMAIN members /\ GetGuilds(u)
  \/ SocketAuth("s1", "u1")
  \/ SocketAuth("s2", "u2")
  \/ \E s \in SocketIds : Connection(s)
  \/ \E s \in SocketIds : ChannelJoin(s, "txt")
  \/ \E o \in DeliverOverrideChoices : PatchChannel("u1", "txt", o)
  \/ Cardinality(drawn \cap {"m1", "m2", "m3", "m4"}) < MaxMessages
       /\ PostMessage("u1", "txt", FreshMessage, "hi", <<>>)
  \/ Cardinality(drawn \cap {"m1", "m2", "m3", "m4"}) < MaxMessages
       /\ MessageSend("s1", "txt", FreshMessage, "hi", <<>>, NULL)
  \/ TypingStart("s1", "txt")
  \/ TypingStop("s1", "txt")

SpecDeliver == Init /\ [][NextDeliver]_vars

\* The sockets that message msg is delivered to: those in its room, but the
\* sender of a socket.to(room) broadcast.
Recipients(rooms, msg) ==
  {s \in SocketIds :
     /\ msg.to \in rooms[s].rooms
     /\ (IF msg.event \in {"typing:start", "typing:stop"} THEN msg.arg.except # s ELSE TRUE)}

ChannelEvents == {"message:new", "typing:start", "typing:stop"}

\* C35: a message:new, typing:start or typing:stop of channel c is delivered
\* only to sockets whose user has VIEW_CHANNELS on c when it is broadcast.
C35_EventsOnlyToViewers ==
  [][\A i \in 1..Len(emitted') :
       \A c \in DOMAIN channels :
         (emitted'[i].to = Room("channel", c) /\ emitted'[i].event \in ChannelEvents) =>
           \A s \in Recipients(sockets', emitted'[i]) :
             isChannelAccessible(c, sockets'[s].user)]_vars

(***************************************************************************)
(* SpecErase: u1 creates a second text channel, posts messages in txt and  *)
(* sets the overrides of the new channel; u2 deletes messages.             *)
(***************************************************************************)
\* Bodies of PATCH /api/channels/c5.
EraseOverrideChoices ==
  { NullOverrides,
    [roles |-> EmptyMap, members |-> ("u2" :> Ov({MANAGE_MESSAGES}, {}))] }

EraseChannels == {"txt", "c5"}

EraseMessages == {"m1", "m2"}

NextErase ==
  \/ \E u \in Users : u \notin DOMAIN members /\ GetGuilds(u)
  \/ ChannelsDrawn < MaxChannels /\ PostChannel("u1", FreshChannel, "text", "")
  \/ Cardinality(drawn \cap {"m1", "m2", "m3", "m4"}) < MaxMessages
       /\ PostMessage("u1", "txt", FreshMessage, "hi", <<>>)
  \/ \E o \in EraseOverrideChoices : PatchChannel("u1", "c5", o)
  \/ \E c \in EraseChannels, m \in EraseMessages : DeleteMessage("u2", c, m)

SpecErase == Init /\ [][NextErase]_vars

\* C36: DELETE /api/channels/c/messages/m with the id of a message of
\* another channel leaves the store as it is and emits no message:delete; it
\* removes a message only of channel c.
C36_DeleteOnlyInCheckedChannel ==
  [][\A c \in EraseChannels, m \in EraseMessages :
       (DeleteMessage("u2", c, m) /\ \E x \in messages : x.id = m /\ x.channelId # c) =>
         /\ UNCHANGED storeVars
         /\ \A i \in 1..Len(emitted') : emitted'[i].event # "message:delete"]_vars

\* Every file in the uploads directory is the file of an Upload row.
StoredFilesHaveRows == \A f \in files : \E u \in uploads : u.url = f

\* C37: when the upload route answers 403 or 429 to a request whose file the
\* multipart parser has stored, the file is no longer on disk and has no
\* Upload row; and in every state each stored file has an Upload row.
C37_RejectedUploadRemovesFile ==
  /\ []StoredFilesHaveRows
  /\ [][\A h \in pending, name \in FileNames :
          (PostUploadFile(h, FreshUpload, name)
             /\ emitted' \in {<<Response(h.user, 403)>>, <<Response(h.user, 429)>>}) =>
            /\ FileUrl(FreshUpload) \notin files'
            /\ \A u \in uploads' : u.id # FreshUpload]_vars

(***************************************************************************)
(* SpecEnter: the users join the guild through the handshake, through GET  *)
(* /api/guilds and through POST /api/guilds/g/join, leave it and are       *)
(* kicked by the operator.                                                 *)
(***************************************************************************)
NextEnter ==
  \/ \E t \in Tokens : SocketAuth(t[1], t[2])
  \/ \E s \in SocketIds : Connection(s)
  \/ \E s \in SocketIds : ClientDisconnect(s)
  \/ \E u \in Users : GetGuilds(u)
  \/ \E u \in Users : PostJoin(u)
  \/ \E u \in Users : PostLeave(u)
  \/ \E u \in Users : AdminKick(u)

SpecEnter == Init /\ [][NextEnter]_vars

\* C38: a member row that a step creates holds @everyone alone if the guild
\* had a member before the step, and holds nothing but @everyone and the
\* Admin role if it had none.
C38_AdminOnlyForFirstMember ==
  [][\A u \in DOMAIN members' \ DOMAIN members :
       IF DOMAIN members # {}
       THEN members'[u].roleIds = {G}
       ELSE members'[u].roleIds \subseteq {G, ADMIN_ROLE}]_vars

\* u2 has just joined through POST /api/guilds/g/join, after u1 who holds the
\* Admin role, and holds @everyone alone.
C38_Witness ==
  /\ emitted = <<Msg(Room("guild", G), "guild:memberJoined", "u2"), Response("u2", 200)>>
  /\ "u1" \in DOMAIN members /\ members["u1"].roleIds = {G, ADMIN_ROLE}
  /\ "u2" \in DOMAIN members /\ members["u2"].roleIds = {G}

(***************************************************************************)
(* SpecSettings: u1, who holds Admin, and the operator change the          *)
(* settings, with either field, both or none in the body.                  *)
(***************************************************************************)
\* the timeoutMaxMinutes of a settings body: absent, or an integer
TimeoutMaxChoices == {<<>>, <<5>>, <<60>>}

NextSettings ==
  \/ \E u \in Users : u \notin DOMAIN members /\ GetGuilds(u)
  \/ \E a \in Users, v \in AuditMaxChoices, t \in TimeoutMaxChoices :
       AuditRoom /\ PatchSettings(a, v, t)
  \/ \E v \in AuditMaxChoices, t \in TimeoutMaxChoices : AdminPatchSettings(v, t)
  \/ \E m \in {0, 30} : AuditRoom /\ PatchTimeout("u1", "u2", m)

SpecSettings == Init /\ [][NextSettings]_vars

\* The request of the step has changed the settings as a body with the
\* fields v and t should: a field the body holds is stored, a field it does
\* not hold stays as it was.
OnlySuppliedChanged(v, t) ==
  /\ settings'.auditMaxEntries = IF v = <<>> THEN settings.auditMaxEntries ELSE v[1]
  /\ settings'.timeoutMaxMinutes = IF t = <<>> THEN settings.timeoutMaxMinutes ELSE t[1]

\* C39: a settings update, by a member with MANAGE_SERVER or by the
\* operator, whose body holds only one of auditMaxEntries and
\* timeoutMaxMinutes stores that one and leaves the other as it was.
C39_OtherSettingKept ==
  [][\A v \in AuditMaxChoices, t \in TimeoutMaxChoices :
       ((v = <<>>) # (t = <<>>)) =>
         /\ AdminPatchSettings(v, t) => OnlySuppliedChanged(v, t)
         /\ \A a \in Users :
              (PatchSettings(a, v, t) /\ Succeeds(a)) => OnlySuppliedChanged(v, t)]_vars


(***************************************************************************)
(* The presence view (socket.js): voice:speaking, voice:snapshot and the   *)
(* cache of toVoiceUsers.                                                  *)
(***************************************************************************)

\* socket.on("voice:speaking")
VoiceSpeaking(socketId, channelId, speaking) ==
  /\ Listening(socketId)
  /\ LET userId == sockets[socketId].user
     IN IF ~isChannelAccessible(channelId, userId)
        THEN SetGW(GW)
        ELSE IF userVoiceChannel[socketId] # channelId
        THEN SetGW(GW)
        ELSE IF VOICE_SPEAK \notin getPermissions(G, userId, channelId)
        THEN SetGW(setSpeakingState(GW, socketId, FALSE))
        ELSE SetGW(setSpeakingState(GW, socketId, speaking))
  /\ UNCHANGED <<storeVars, httpVars, socketRateLimits>>

\* The map over the voice channels in voice:snapshot: the views of the
\* channels chans, and the server after the calls.
RECURSIVE snapshotChannels(_, _)
snapshotChannels(st, chans) ==
  IF chans = <<>> THEN [st |-> st, channels |-> <<>>]
  ELSE LET info == toVoiceUsers(st, Head(chans))
           rest == snapshotChannels(info.st, Tail(chans))
       IN [st |-> rest.st,
           channels |-> <<[channelId |-> Head(chans), userIds |-> info.data.userIds,
                           users |-> info.data.users,
                           speakingUserIds |-> info.data.speakingUserIds]>> \o rest.channels]

\* socket.on("voice:snapshot")
VoiceSnapshot(socketId, guildId) ==
  /\ Listening(socketId)
  /\ LET userId == sockets[socketId].user
     IN IF ~isGuildMember(guildId, userId)
        THEN SetGW(Ack(GW, socketId, "voice:snapshot", "Forbidden"))
        ELSE LET voice == SeqOf({c \in DOMAIN channels : channels[c].type = "voice"})
                 snap == snapshotChannels(GW, voice)
             IN SetGW(Ack(snap.st, socketId, "voice:snapshot", snap.channels))
  /\ UNCHANGED <<storeVars, httpVars, socketRateLimits>>

\* The clock of the presence runs: it advances by the life of a cache entry
\* while it is below MaxPresenceTime.
MaxPresenceTime == 5

NextPresence ==
  \/ "u1" \notin DOMAIN members /\ GetGuilds("u1")
  \/ \E s \in SocketIds : SocketAuth(s, "u1")
  \/ \E s \in SocketIds : Connection(s)
  \/ ClientDisconnect("s2")
  \/ \E s \in SocketIds : RejoinBudget(s) /\ VoiceJoin(s, "vc1")
  \/ VoiceLeave("s1")
  \/ \E b \in BOOLEAN : VoiceSpeaking("s2", "vc1", b)
  \/ VoiceSnapshot("s1", G)
  \/ now < MaxPresenceTime /\ Elapse(VOICE_CACHE_TTL)

SpecPresence == Init /\ [][NextPresence]_vars

\* The view toVoiceUsers(c) returns in the current state.
PresenceView(channelId) == toVoiceUsers(GW, channelId).data

\* The view of channel c is served from the cache.
ServedFromCache(channelId) ==
  LET cacheKey == voiceUsersCacheKey(GW, channelId)
  IN /\ cacheKey \in DOMAIN voiceUsersCache
     /\ voiceUsersCache[cacheKey].expiresAt > now

\* C40: in every state, whether the cache answers or the view is built anew,
\* the view of a voice channel lists exactly the sessions that are
\* participants of the channel now, and as speaking exactly those of them
\* that are marked speaking now; the views a voice:snapshot acknowledges are
\* these views.
C40_PresenceViewCurrent ==
  /\ \A c \in VoiceChannels :
       /\ Elements(PresenceView(c).userIds) = voiceParticipants[c]
       /\ Elements(PresenceView(c).speakingUserIds) = voiceParticipants[c] \cap speakingUsers
  /\ \A i \in DOMAIN emitted :
       (emitted[i].event = "voice:snapshot" /\ emitted[i].arg # "Forbidden") =>
         \A j \in DOMAIN emitted[i].arg :
           LET ch == emitted[i].arg[j]
           IN /\ Elements(ch.userIds) = voiceParticipants[ch.channelId]
              /\ Elements(ch.speakingUserIds) = voiceParticipants[ch.channelId] \cap speakingUsers

\* A snapshot was answered from the cache for a channel with two sessions,
\* one of them speaking, while the cache still holds unexpired views of the
\* same channel taken under other speaking states or participants.
C40_Witness ==
  /\ ServedFromCache("vc1")
  /\ voiceParticipants["vc1"] = {"s1", "s2"}
  /\ speakingUsers = {"s2"}
  /\ \E i \in DOMAIN emitted : emitted[i].event = "voice:snapshot" /\ emitted[i].arg # "Forbidden"
  /\ Cardinality({k \in DOMAIN voiceUsersCache :
                    k[1] = "vc1" /\ voiceUsersCache[k].expiresAt > now}) >= 3

=============================================================================
